---------------------------- MODULE Spec2Model ----------------------------
(***************************************************************************)
(* Model of the flown-base firmware: the two debounced input monitors      *)
(* (src/src/event.rs), the mode controller (src/src/bin/main.rs), the      *)
(* effect engine (src/src/effect) and the renderer loop                    *)
(* (src/src/render/mod.rs), running as four tasks of one cooperative       *)
(* executor over the shared State (src/src/state.rs).                      *)
(*                                                                         *)
(* Time is in milliseconds.  An Instant is kept as its age (the value of   *)
(* Instant::elapsed()), a Timer as the time left until it expires.  Tick   *)
(* moves the clock to the earliest pending deadline, and only when no     *)
(* monitor and not main has work to do: a woken task is polled well       *)
(* within a millisecond.  The renderer runs at any pace.                  *)
(***************************************************************************)
EXTENDS Integers, Sequences, FiniteSets, TLC

(* ------------------------------ constants ------------------------------ *)

BUTTON_HOLD_TIME == 1500
BUTTON_DEBOUNCE_TIME == 1
CHARGER_DEBOUNCE_TIME == 10
EVENTS_CAPACITY == 10
SETTLE_MS == 1
GRACE_MS == 1
PAIRING_MS == 3000
SHUTDOWN_FADE_MS == 500
FADE_IN_MS == 1000
FADE_OUT_MS == 1500
CHARGING_PERIOD_MS == 5000
MAIN_PERIOD_MS == 3000

(* ------------------------------- bounds -------------------------------- *)

\* raw transitions the environment makes on the button line
MaxButtonEdges == 2
\* raw transitions the environment makes on the charger line
MaxChargerEdges == 1
\* ButtonHold events counted per hold, and hold periods an Instant is aged over
MaxHolds == 2
\* modes recorded in mode_trace
MaxTrace == 8
\* longest effect sequence handed to apply in SpecApply
MaxLen == 4

(* ------------------------------ utilities ------------------------------ *)

Min(S) == CHOOSE x \in S : \A y \in S : x <= y

\* the time left until an Instant of this age is `limit` old, if any
Rem(limit, age) == IF age < limit THEN {limit - age} ELSE {}

\* Instant::elapsed() after d more milliseconds, kept up to cap
Aged(age, d, cap) == IF age + d > cap THEN cap ELSE age + d

\* a Timer's remaining time after d more milliseconds
Left(t, d) == IF t > d THEN t - d ELSE 0

(* ------------------------------- effects ------------------------------- *)

\* Option::None for an Option<Box<dyn Effect>> / Option<EffectBuffer>
NoEffect == [kind |-> "None"]

\* Rgb as an effect: a solid colour
RgbEffect(c) == [kind |-> "Rgb", color |-> c]

\* SinePulseEffect::new; start, amplitude and offset feed only the blend
\* factor of apply and are left out
SinePulseEffect(period, wrapped) ==
    [kind |-> "SinePulse", period |-> period, wrapped |-> wrapped]

\* FadeTransitionEffect::new: start = Instant::now(), so age 0
FadeTransitionEffect(dir, duration, wrapped) ==
    [kind |-> "Fade", dir |-> dir, duration |-> duration, age |-> 0,
     wrapped |-> wrapped]

\* Box<Vec<Box<dyn Effect>>> used as one effect
VecEffect(items) == [kind |-> "Vec", items |-> items]

RECURSIVE DisplayMode(_)
\* Effect::display_mode
DisplayMode(e) ==
    CASE e.kind = "Rgb" -> "Opaque"
      [] e.kind = "Vec" ->
            IF \E i \in DOMAIN e.items : DisplayMode(e.items[i]) = "Opaque"
            THEN "Opaque" ELSE "Blend"
      [] OTHER -> "Blend"

\* a faulty variant of RevPositionOpaque: position() without rev(), the
\* distance of the lowest Opaque member from the bottom
PositionOpaque(s) ==
    LET hits == {k \in 0..(Len(s) - 1) : DisplayMode(s[k + 1]) = "Opaque"}
    IN  IF hits = {} THEN -1 ELSE Min(hits)

\* rev().position(|e| e.display_mode() == Opaque): distance of the topmost
\* Opaque member from the top, or -1 for Option::None
RevPositionOpaque(s) ==
    LET hits == {k \in 0..(Len(s) - 1) : DisplayMode(s[Len(s) - k]) = "Opaque"}
    IN  IF hits = {} THEN -1 ELSE Min(hits)

\* the 0-based index `first` of Vec::apply (s non-empty)
ApplyFirst(s) ==
    LET last == Len(s) - 1
        pos == RevPositionOpaque(s)
    IN  last - (IF pos = -1 THEN last ELSE pos)

\* the 1-based positions Vec::apply applies, in the order it applies them:
\* iter_mut().take(last + 1).skip(first)
AppliedPositions(s) ==
    IF s = <<>> THEN <<>>
    ELSE LET first == ApplyFirst(s)
             last == Len(s) - 1
         IN  [k \in 1..(last - first + 1) |-> first + k]

RECURSIVE ApplyYields(_)
\* whether Effect::apply reaches a yield_now(): the pixel loops of
\* SinePulseEffect and FadeTransitionEffect do, Rgb's fill does not
ApplyYields(e) ==
    CASE e.kind \in {"SinePulse", "Fade"} -> TRUE
      [] e.kind = "Vec" ->
            \E k \in DOMAIN AppliedPositions(e.items) :
                ApplyYields(e.items[AppliedPositions(e.items)[k]])
      [] OTHER -> FALSE

\* the result of Effect::update: the effect after the call, the
\* Option<EffectEvent> returned and the effect a Replace carries
Outcome(self, ev, new) == [self |-> self, ev |-> ev, new |-> new]

\* removing the members whose update returned Remove (removals.rev()),
\* keeping the order of the others
RemoveMarked(s, marked) ==
    LET keep == {i \in DOMAIN s : i \notin marked}
        Rank(i) == Cardinality({j \in keep : j <= i})
    IN  [k \in 1..Cardinality(keep) |->
            s[CHOOSE i \in keep : Rank(i) = k]]

\* the inner effect an update leaves wrapped: a Replace is swapped in
Rewrapped(inner) == IF inner.ev = "Replace" THEN inner.new ELSE inner.self

\* a faulty variant of FadeCompletion: the fade is over only after its
\* duration, not at it
FadeCompletionLate(e, w) ==
    IF e.age > e.duration
    THEN IF w # NoEffect /\ e.dir = "In"
         THEN Outcome([e EXCEPT !.wrapped = NoEffect], "Replace", w)
         ELSE Outcome([e EXCEPT !.wrapped = NoEffect], "Remove", NoEffect)
    ELSE Outcome([e EXCEPT !.wrapped = w], "None", NoEffect)

\* a faulty variant of FadeCompletion: a fade-in that is over is removed
\* together with the effect it wraps
FadeCompletionRemoves(e, w) ==
    IF e.age >= e.duration
    THEN Outcome([e EXCEPT !.wrapped = NoEffect], "Remove", NoEffect)
    ELSE Outcome([e EXCEPT !.wrapped = w], "None", NoEffect)

\* FadeTransitionEffect::update once its own timer is looked at
FadeCompletion(e, w) ==
    IF e.age >= e.duration
    THEN IF w # NoEffect /\ e.dir = "In"
         THEN Outcome([e EXCEPT !.wrapped = NoEffect], "Replace", w)
         ELSE Outcome([e EXCEPT !.wrapped = NoEffect], "Remove", NoEffect)
    ELSE Outcome([e EXCEPT !.wrapped = w], "None", NoEffect)

\* what FadeTransitionEffect::update does when the inner effect returned
\* Remove: it drops the inner effect and returns Remove itself
FadeInnerRemoved(e) ==
    Outcome([e EXCEPT !.wrapped = NoEffect], "Remove", NoEffect)

RECURSIVE UpdateEffect(_)
RECURSIVE VecUpdate(_)
\* Effect::update for every implementation
UpdateEffect(e) ==
    CASE e.kind = "Rgb" -> Outcome(e, "None", NoEffect)
      [] e.kind = "Vec" ->
            Outcome([e EXCEPT !.items = VecUpdate(e.items)], "None", NoEffect)
      [] e.kind = "SinePulse" ->
            LET inner == IF e.wrapped = NoEffect
                         THEN Outcome(NoEffect, "None", NoEffect)
                         ELSE UpdateEffect(e.wrapped)
            IN  IF inner.ev = "Remove"
                THEN Outcome([e EXCEPT !.wrapped = NoEffect], "Remove", NoEffect)
                ELSE Outcome([e EXCEPT !.wrapped = Rewrapped(inner)], "None",
                             NoEffect)
      [] e.kind = "Fade" ->
            LET inner == IF e.wrapped = NoEffect
                         THEN Outcome(NoEffect, "None", NoEffect)
                         ELSE UpdateEffect(e.wrapped)
            IN  IF inner.ev = "Remove"
                THEN FadeInnerRemoved(e)
                ELSE FadeCompletion(e, Rewrapped(inner))

\* Vec<Box<dyn Effect>>::update on the sequence s
VecUpdate(s) ==
    LET res == [i \in DOMAIN s |-> UpdateEffect(s[i])]
        swapped == [i \in DOMAIN s |-> Rewrapped(res[i])]
    IN  RemoveMarked(swapped, {i \in DOMAIN s : res[i].ev = "Remove"})

RECURSIVE AgeEffect(_, _)
\* the effect d milliseconds later: every FadeTransitionEffect's
\* start.elapsed() grows by d (kept up to its duration)
AgeEffect(e, d) ==
    CASE e.kind = "Fade" ->
            [e EXCEPT !.age = Aged(e.age, d, e.duration),
                      !.wrapped = AgeEffect(e.wrapped, d)]
      [] e.kind = "SinePulse" -> [e EXCEPT !.wrapped = AgeEffect(e.wrapped, d)]
      [] e.kind = "Vec" ->
            [e EXCEPT !.items = [i \in DOMAIN e.items |-> AgeEffect(e.items[i], d)]]
      [] OTHER -> e

RECURSIVE EffectDeadlines(_)
\* the times left until a fade inside e reaches its duration
EffectDeadlines(e) ==
    CASE e.kind = "Fade" -> Rem(e.duration, e.age) \cup EffectDeadlines(e.wrapped)
      [] e.kind = "SinePulse" -> EffectDeadlines(e.wrapped)
      [] e.kind = "Vec" ->
            UNION {EffectDeadlines(e.items[i]) : i \in DOMAIN e.items}
      [] OTHER -> {}

\* main.rs: the charging visual of Mode::PreCharging
ChargingEffect ==
    VecEffect(<<RgbEffect("WHITE"),
                SinePulseEffect(CHARGING_PERIOD_MS, NoEffect)>>)

\* main.rs: the main visual of Mode::PreMain
MainEffect ==
    VecEffect(<<RgbEffect("CYAN"),
                SinePulseEffect(MAIN_PERIOD_MS, RgbEffect("RED"))>>)

\* a faulty variant of AddFadeIn: the effect is pushed bare as well as
\* under its fade-in
AddFadeInAndEffect(stack, effect, duration) ==
    Append(Append(stack, effect), FadeTransitionEffect("In", duration, effect))

\* add_fade_in: push a linear fade-in wrapping `effect`
AddFadeIn(stack, effect, duration) ==
    Append(stack, FadeTransitionEffect("In", duration, effect))

\* a faulty variant of AddFadeOut: the body of add_fade_in, the transition
\* pushed is a fade-in
AddFadeOutAsIn(stack, effect, duration) ==
    Append(stack, FadeTransitionEffect("In", duration, effect))

\* add_fade_out: push a linear fade-out wrapping `effect`
AddFadeOut(stack, effect, duration) ==
    Append(stack, FadeTransitionEffect("Out", duration, effect))

\* a faulty variant of DrainAndFadeOut: the bundle is collected but the
\* stack is not drained
FadeOutUndrained(stack, duration) ==
    AddFadeOut(stack, VecEffect(stack), duration)

\* effect_stack.drain(..).collect() followed by add_fade_out on the now
\* empty stack
DrainAndFadeOut(stack, duration) ==
    AddFadeOut(<<>>, VecEffect(stack), duration)

(* --------------------------- library objects --------------------------- *)

\* ButtonState::NotHeld
NotHeld == [held |-> FALSE, at |-> 0]

\* ButtonState::Held(Instant::now())
HeldNow == [held |-> TRUE, at |-> 0]

\* the longest age kept for the Instant of the shared ButtonState
HoldSpan == MaxHolds * BUTTON_HOLD_TIME

\* a faulty variant of ChannelFull: room for one event too many
ChannelFullBeyond(q) == Len(q) > EVENTS_CAPACITY

\* Channel<Event, 10>: send suspends while the channel is full
ChannelFull(q) == Len(q) >= EVENTS_CAPACITY

\* Channel::send once there is room: the event goes to the back
ChannelSend(q, e) == Append(q, e)

\* Channel::receive on a non-empty channel: the front event and the rest
ChannelReceive(q) == [msg |-> Head(q), rest |-> Tail(q)]

\* Signal::signal: the signal is set, whatever it was
SignalSignal(s) == "Signaled"

\* Signal::wait completing: the waiter takes the value and the signal is reset
SignalWait(s) == "None"

\* select3 / select: the futures are polled in order and the first one
\* that is ready decides
Select3(a, b, c) ==
    IF a THEN "First" ELSE IF b THEN "Second" ELSE IF c THEN "Third"
    ELSE "Pending"

\* a faulty variant of Not: the power state is set On, never cleared
NotSetsOn(p) == "On"

\* impl Not for PowerState
Not(p) == IF p = "On" THEN "Off" ELSE "On"

(* ------------------------------ variables ------------------------------ *)

VARIABLES
    \* the input lines and the raw transitions made on them so far
    button_pin, charger_pin, button_edges, charger_edges,
    \* State
    mode, button_state, charger_state, events, exit, power, effect_stack,
    \* button_input: position, local button_state, age of last_button_event
    bi_pc, bi_button_state, bi_last_event,
    \* charger_input: position, local charger_state, age of last_charger_event
    ci_pc, ci_charger_state, ci_last_event,
    \* main: position, initial_hold, time left on the Timer it awaits
    main_pc, initial_hold, timer,
    \* renderer: position
    rn_pc,
    \* the task that ran last and has not yielded on its own
    running,
    \* history: age of the last raw button transition, whether it has been
    \* accepted, whether it came inside the debounce window of an accepted one
    g_since, g_acc, g_short,
    \* history: ButtonHold events published in the current hold
    hold_count,
    \* history: the Shutdown debounce ("no", "waiting", "released") and whether
    \* it has discarded an event
    debounced, discarded,
    \* history: last and first event main received, modes set so far
    received, first_event, mode_trace,
    \* the effect sequence under test, the next index of apply's loop (-1
    \* before the call) and the positions applied so far (SpecApply)
    av, a_next, applied,
    \* the fade under test, the result of its last update, the effect a
    \* Replace carried and whether update has run since time last passed
    \* (SpecFade)
    fx, fx_ev, fx_new, fx_fresh,
    \* the sequence update is called on and as it was before the call, the
    \* members the first loop has visited (-1 before the call), `removals`,
    \* the calls of update made on each member and what update returned
    \* (SpecUpdate)
    uv, u_in, u_next, removals, u_calls, u_ev,
    \* the quantized pixels of the frame being written, the pulse buffer and
    \* the pixels write_pulses has written in this frame (-1 before the
    \* first frame) (SpecPulse)
    rb, pb, p_next,
    \* transmit: position, `index`, the half of the RMT memory last refilled,
    \* the transport's error, threshold and end flags, the value returned;
    \* history: a test of the error flag has found it raised, refills made
    \* while it was raised (SpecTransmit)
    tx_pc, tx_index, tx_ram, tx_err, tx_thr, tx_end, tx_result, tx_checked,
    tx_late, tx_len, tx_from, tx_n, tx_written

envVars == <<button_pin, charger_pin, button_edges, charger_edges>>
sharedVars ==
    <<mode, button_state, charger_state, events, exit, power, effect_stack>>
biVars == <<bi_pc, bi_button_state, bi_last_event>>
ciVars == <<ci_pc, ci_charger_state, ci_last_event>>
mainVars == <<main_pc, initial_hold, timer>>
edgeHist == <<g_since, g_acc, g_short>>
mainHist == <<debounced, discarded, received, first_event, mode_trace>>
applyVars == <<av, a_next, applied>>
fadeVars == <<fx, fx_ev, fx_new, fx_fresh>>
updateVars == <<uv, u_in, u_next, removals, u_calls, u_ev>>
pulseVars == <<rb, pb, p_next>>
txVars ==
    <<tx_pc, tx_index, tx_ram, tx_err, tx_thr, tx_end, tx_result, tx_checked,
      tx_late, tx_len, tx_from, tx_n, tx_written>>
harnessVars == <<applyVars, fadeVars, updateVars, pulseVars, txVars>>
systemVars ==
    <<envVars, sharedVars, biVars, ciVars, mainVars, rn_pc, running, edgeHist,
      hold_count, mainHist>>
vars ==
    <<envVars, sharedVars, biVars, ciVars, mainVars, rn_pc, running, edgeHist,
      hold_count, mainHist, harnessVars>>

\* the harness variables while the firmware runs
ApplyIdle == av = <<>> /\ a_next = -1 /\ applied = <<>>

FadeIdle ==
    fx = NoEffect /\ fx_ev = "NotRun" /\ fx_new = NoEffect /\ fx_fresh = FALSE

UpdateIdle ==
    /\ uv = <<>>
    /\ u_in = <<>>
    /\ u_next = -1
    /\ removals = <<>>
    /\ u_calls = <<>>
    /\ u_ev = "NotRun"

PulseIdle == rb = <<>> /\ pb = <<>> /\ p_next = -1

TransmitIdle ==
    /\ tx_pc = "none"
    /\ tx_index = 0
    /\ tx_ram = 0
    /\ tx_err = FALSE
    /\ tx_thr = FALSE
    /\ tx_end = FALSE
    /\ tx_result = "none"
    /\ tx_checked = FALSE
    /\ tx_late = 0
    /\ tx_len = 0
    /\ tx_from = 0
    /\ tx_n = 0
    /\ tx_written = 0

HarnessIdle ==
    ApplyIdle /\ FadeIdle /\ UpdateIdle /\ PulseIdle /\ TransmitIdle

\* State::initialize and the locals of main before its loop; the pins are
\* whatever the hardware shows at boot
SystemInit ==
    /\ button_pin \in {"Low", "High"}
    /\ charger_pin \in {"Low", "High"}
    /\ button_edges = 0
    /\ charger_edges = 0
    /\ mode = "PreStartup"
    /\ button_state = NotHeld
    /\ charger_state = "Unplugged"
    /\ events = <<>>
    /\ exit = "None"
    /\ power = "Off"
    /\ effect_stack = <<>>
    /\ bi_pc = "init"
    /\ bi_button_state = NotHeld
    /\ bi_last_event = 0
    /\ ci_pc = "init"
    /\ ci_charger_state = "Unplugged"
    /\ ci_last_event = 0
    /\ main_pc = "loop"
    /\ initial_hold = FALSE
    /\ timer = 0
    /\ rn_pc = "frame"
    /\ running = "main"
    /\ g_since = BUTTON_DEBOUNCE_TIME
    /\ g_acc = FALSE
    /\ g_short = FALSE
    /\ hold_count = 0
    /\ debounced = "no"
    /\ discarded = FALSE
    /\ received = "none"
    /\ first_event = "none"
    /\ mode_trace = <<"PreStartup">>

Init == SystemInit /\ HarnessIdle

(* ------------------------------ scheduling ----------------------------- *)

\* the guard of state.button_state is held by button_input across its send
ButtonGuardHeld == bi_pc = "send_edge"

\* the guard of state.charger_state is held by charger_input across its send
ChargerGuardHeld == ci_pc = "send"

\* a faulty variant of StackLocked: the stack is used without its guard
StackNeverLocked == FALSE

\* the guard of state.effect_stack is held by the renderer across the
\* yields of apply
StackLocked == rn_pc = "apply"

\* ButtonState::wait: the level the local state waits for is on the line
BiLevelReady ==
    \/ bi_button_state.held /\ button_pin = "High"
    \/ ~bi_button_state.held /\ button_pin = "Low"

\* ButtonState::hold_timer: Timer::at(start_time + BUTTON_HOLD_TIME) expired
BiHoldReady ==
    bi_button_state.held /\ bi_button_state.at >= BUTTON_HOLD_TIME

\* the branch select3(button, hold_timer, exit) resolves to
BiSelect == Select3(BiLevelReady, BiHoldReady, exit = "Signaled")

\* ChargerState::wait: the level the local state waits for is on the line
CiLevelReady ==
    \/ ci_charger_state = "PluggedIn" /\ charger_pin = "Low"
    \/ ci_charger_state = "Unplugged" /\ charger_pin = "High"

\* the branch select(charger, exit) resolves to
CiSelect == Select3(CiLevelReady, FALSE, exit = "Signaled")

\* button_input can go on from where it is suspended
BiReady ==
    CASE bi_pc = "init" -> TRUE
      [] bi_pc \in {"select", "spin"} -> BiSelect # "Pending"
      [] bi_pc \in {"send_edge", "send_hold"} -> ~ChannelFull(events)
      [] OTHER -> FALSE

\* charger_input can go on from where it is suspended
CiReady ==
    CASE ci_pc = "init" -> TRUE
      [] ci_pc \in {"select", "spin"} -> CiSelect # "Pending"
      [] ci_pc = "send" -> ~ChannelFull(events)
      [] OTHER -> FALSE

\* a monitor that the exit signal has woken and that has not run yet: the
\* executor polls it before a timer set after the signal can expire
ExitPending ==
    \/ bi_pc \in {"select", "spin"} /\ BiSelect = "Third"
    \/ ci_pc \in {"select", "spin"} /\ CiSelect = "Third"

\* main can go on from where it is suspended
MainReady ==
    CASE main_pc = "loop" ->
            CASE mode = "Startup" -> ~ChargerGuardHeld
              [] mode \in {"PreCharging", "PreMain", "Shutdown"} -> ~StackLocked
              [] mode \in {"Charging", "Main"} -> events # <<>>
              [] OTHER -> TRUE
      [] main_pc = "settle" ->
            timer = 0 /\ bi_pc # "init" /\ ci_pc # "init" /\ ~ButtonGuardHeld
      [] main_pc \in {"startup_recv", "debounce"} -> events # <<>>
      [] main_pc = "stack_wait" -> ~StackLocked
      [] main_pc = "button_wait" -> ~ButtonGuardHeld
      [] main_pc \in {"fade_wait", "pairing"} -> timer = 0
      [] main_pc = "grace" -> timer = 0 /\ ~ExitPending
      [] OTHER -> FALSE

TaskReady(t) ==
    CASE t = "main" -> MainReady
      [] t = "button" -> BiReady
      [] t = "charger" -> CiReady
      [] OTHER -> FALSE

\* the executor is cooperative: a task is polled only when the task that
\* ran last is suspended; nothing runs once the chip is in deep sleep
CanRun(t) ==
    /\ main_pc # "off"
    /\ running = "none" \/ running = t \/ ~TaskReady(running)

(* ----------------------------- environment ---------------------------- *)

\* a raw transition on the button line
ButtonEdge ==
    /\ main_pc # "off"
    /\ button_edges < MaxButtonEdges
    /\ button_pin' = IF button_pin = "Low" THEN "High" ELSE "Low"
    /\ button_edges' = button_edges + 1
    /\ g_short' = (g_acc /\ g_since < BUTTON_DEBOUNCE_TIME)
    /\ g_acc' = FALSE
    /\ g_since' = 0
    /\ UNCHANGED <<charger_pin, charger_edges, sharedVars, biVars, ciVars,
                   mainVars, rn_pc, running, hold_count, mainHist, harnessVars>>

\* a raw transition on the charger line
ChargerEdge ==
    /\ main_pc # "off"
    /\ charger_edges < MaxChargerEdges
    /\ charger_pin' = IF charger_pin = "Low" THEN "High" ELSE "Low"
    /\ charger_edges' = charger_edges + 1
    /\ UNCHANGED <<button_pin, button_edges, sharedVars, biVars, ciVars,
                   mainVars, rn_pc, running, edgeHist, hold_count, mainHist,
                   harnessVars>>

\* the times left until something that is being timed comes due
Deadlines ==
    UNION {
        IF bi_pc \in {"init", "done"} THEN {}
        ELSE Rem(BUTTON_DEBOUNCE_TIME, bi_last_event),
        IF bi_pc \in {"init", "done"} \/ ~bi_button_state.held THEN {}
        ELSE Rem(BUTTON_HOLD_TIME, bi_button_state.at),
        IF ci_pc \in {"init", "done"} THEN {}
        ELSE Rem(CHARGER_DEBOUNCE_TIME, ci_last_event),
        Rem(BUTTON_DEBOUNCE_TIME, g_since),
        IF timer > 0 THEN {timer} ELSE {},
        EffectDeadlines(VecEffect(effect_stack)) }

\* a faulty variant of ButtonBouncing: no debounce window at all
NeverBouncing(elapsed) == FALSE

\* last_button_event.elapsed() < BUTTON_DEBOUNCE_TIME
ButtonBouncing(elapsed) == elapsed < BUTTON_DEBOUNCE_TIME

\* last_charger_event.elapsed() < CHARGER_DEBOUNCE_TIME
ChargerBouncing(elapsed) == elapsed < CHARGER_DEBOUNCE_TIME

\* a monitor or main has work to do now; a monitor that skips level
\* changes inside its debounce window only waits for the window to pass
Busy ==
    \/ MainReady
    \/ BiReady /\ ~(bi_pc = "spin" /\ BiSelect = "First"
                      /\ ButtonBouncing(bi_last_event))
    \/ CiReady /\ ~(ci_pc = "spin" /\ CiSelect = "First"
                      /\ ChargerBouncing(ci_last_event))

\* time passes, up to the earliest deadline; the executor polls a woken
\* task well within a millisecond, so no time passes while one has work
Tick ==
    /\ main_pc # "off"
    /\ ~Busy
    /\ Deadlines # {}
    /\ LET d == Min(Deadlines)
       IN  /\ bi_last_event' = Aged(bi_last_event, d, BUTTON_DEBOUNCE_TIME)
           /\ bi_button_state' =
                 IF bi_button_state.held
                 THEN [bi_button_state EXCEPT
                          !.at = Aged(bi_button_state.at, d, BUTTON_HOLD_TIME)]
                 ELSE bi_button_state
           /\ button_state' =
                 IF button_state.held
                 THEN [button_state EXCEPT
                          !.at = Aged(button_state.at, d, HoldSpan)]
                 ELSE button_state
           /\ ci_last_event' = Aged(ci_last_event, d, CHARGER_DEBOUNCE_TIME)
           /\ g_since' = Aged(g_since, d, BUTTON_DEBOUNCE_TIME)
           /\ timer' = Left(timer, d)
           /\ effect_stack' = AgeEffect(VecEffect(effect_stack), d).items
    /\ UNCHANGED <<envVars, mode, charger_state, events, exit, power, bi_pc,
                   ci_pc, ci_charger_state, main_pc, initial_hold, rn_pc,
                   running, g_acc, g_short, hold_count, mainHist, harnessVars>>

(* ----------------------------- button_input ---------------------------- *)

\* the output of the ButtonFuture built by ButtonState::wait
ButtonNextState(s) == IF s.held THEN NotHeld ELSE HeldNow

\* a faulty variant of ButtonEventOf: the two events are exchanged
ButtonEventOfExchanged(s) == IF s.held THEN "ButtonRelease" ELSE "ButtonPress"

\* the event button_input sends for an accepted next_state
ButtonEventOf(s) == IF s.held THEN "ButtonPress" ELSE "ButtonRelease"

\* a faulty variant of ButtonRearmed: the hold timer keeps its old start
ButtonKept(s) == s

\* the local state after the hold timer branch: the timer is armed again
ButtonRearmed(s) == HeldNow

\* a faulty variant of ExitPropagated: the signal is consumed and not
\* signalled again
ExitConsumed(s) == SignalWait(s)

\* the exit branch of a monitor: the consumed signal is signalled again
ExitPropagated(s) == SignalSignal(SignalWait(s))

\* button_input up to its loop: the pin is read into the local and the
\* shared state, last_button_event = Instant::now()
ButtonStart ==
    /\ CanRun("button")
    /\ bi_pc = "init"
    /\ bi_button_state' = IF button_pin = "High" THEN NotHeld ELSE HeldNow
    /\ button_state' = bi_button_state'
    /\ bi_last_event' = 0
    /\ bi_pc' = "select"
    /\ running' = "button"
    /\ hold_count' = 0
    /\ UNCHANGED <<envVars, mode, charger_state, events, exit, power,
                   effect_stack, ciVars, mainVars, rn_pc, edgeHist, mainHist,
                   harnessVars>>

\* Either3::First: a level change inside the debounce window is skipped
\* (continue), any other is taken over, sent and stored in the shared state;
\* a full channel suspends the task inside send, the guard still held
ButtonChanged ==
    /\ CanRun("button")
    /\ bi_pc \in {"select", "spin"}
    /\ BiSelect = "First"
    /\ IF ButtonBouncing(bi_last_event)
       THEN /\ bi_pc' = "spin"
            /\ \E r \in {"button", "none"} : running' = r
            /\ UNCHANGED <<bi_button_state, bi_last_event, button_state,
                           events, g_acc, hold_count>>
       ELSE LET next_state == ButtonNextState(bi_button_state)
            IN  /\ bi_last_event' = 0
                /\ bi_button_state' = next_state
                /\ g_acc' = TRUE
                /\ hold_count' = 0
                /\ running' = "button"
                /\ IF ChannelFull(events)
                   THEN /\ bi_pc' = "send_edge"
                        /\ UNCHANGED <<events, button_state>>
                   ELSE /\ events' = ChannelSend(events, ButtonEventOf(next_state))
                        /\ button_state' = next_state
                        /\ bi_pc' = "select"
    /\ UNCHANGED <<envVars, mode, charger_state, exit, power, effect_stack,
                   ciVars, mainVars, rn_pc, g_since, g_short, mainHist,
                   harnessVars>>

\* Either3::Second: the hold timer fired; the local state is re-stamped and
\* ButtonHold is sent
ButtonHeld ==
    /\ CanRun("button")
    /\ bi_pc \in {"select", "spin"}
    /\ BiSelect = "Second"
    /\ bi_button_state' = ButtonRearmed(bi_button_state)
    /\ hold_count' = IF hold_count < MaxHolds THEN hold_count + 1 ELSE hold_count
    /\ running' = "button"
    /\ IF ChannelFull(events)
       THEN /\ bi_pc' = "send_hold"
            /\ UNCHANGED events
       ELSE /\ events' = ChannelSend(events, "ButtonHold")
            /\ bi_pc' = "select"
    /\ UNCHANGED <<envVars, mode, button_state, charger_state, exit, power,
                   effect_stack, bi_last_event, ciVars, mainVars, rn_pc,
                   edgeHist, mainHist, harnessVars>>

\* a suspended send goes through once the channel has room; after a
\* press or release the shared state is then written (*guard = next_state)
ButtonSent ==
    /\ CanRun("button")
    /\ bi_pc \in {"send_edge", "send_hold"}
    /\ ~ChannelFull(events)
    /\ events' = ChannelSend(events, IF bi_pc = "send_hold" THEN "ButtonHold"
                                     ELSE ButtonEventOf(bi_button_state))
    /\ button_state' = IF bi_pc = "send_edge" THEN bi_button_state
                       ELSE button_state
    /\ bi_pc' = "select"
    /\ running' = "button"
    /\ UNCHANGED <<envVars, mode, charger_state, exit, power, effect_stack,
                   bi_button_state, bi_last_event, ciVars, mainVars, rn_pc,
                   edgeHist, hold_count, mainHist, harnessVars>>

\* Either3::Third: the exit signal is passed on and the loop is left
ButtonExit ==
    /\ CanRun("button")
    /\ bi_pc \in {"select", "spin"}
    /\ BiSelect = "Third"
    /\ exit' = ExitPropagated(exit)
    /\ bi_pc' = "done"
    /\ running' = "none"
    /\ UNCHANGED <<envVars, mode, button_state, charger_state, events, power,
                   effect_stack, bi_button_state, bi_last_event, ciVars,
                   mainVars, rn_pc, edgeHist, hold_count, mainHist,
                   harnessVars>>

(* ---------------------------- charger_input ---------------------------- *)

\* the output of the ChargerFuture built by ChargerState::wait
ChargerNextState(s) == IF s = "PluggedIn" THEN "Unplugged" ELSE "PluggedIn"

\* the event charger_input sends for an accepted next_state
ChargerEventOf(s) ==
    IF s = "PluggedIn" THEN "ChargerPluggedIn" ELSE "ChargerUnplugged"

\* charger_input up to its loop
ChargerStart ==
    /\ CanRun("charger")
    /\ ci_pc = "init"
    /\ ci_charger_state' = IF charger_pin = "High" THEN "PluggedIn"
                           ELSE "Unplugged"
    /\ charger_state' = ci_charger_state'
    /\ ci_last_event' = 0
    /\ ci_pc' = "select"
    /\ running' = "charger"
    /\ UNCHANGED <<envVars, mode, button_state, events, exit, power,
                   effect_stack, biVars, mainVars, rn_pc, edgeHist, hold_count,
                   mainHist, harnessVars>>

\* Either::First of charger_input
ChargerChanged ==
    /\ CanRun("charger")
    /\ ci_pc \in {"select", "spin"}
    /\ CiSelect = "First"
    /\ IF ChargerBouncing(ci_last_event)
       THEN /\ ci_pc' = "spin"
            /\ \E r \in {"charger", "none"} : running' = r
            /\ UNCHANGED <<ci_charger_state, ci_last_event, charger_state,
                           events>>
       ELSE LET next_state == ChargerNextState(ci_charger_state)
            IN  /\ ci_last_event' = 0
                /\ ci_charger_state' = next_state
                /\ running' = "charger"
                /\ IF ChannelFull(events)
                   THEN /\ ci_pc' = "send"
                        /\ UNCHANGED <<events, charger_state>>
                   ELSE /\ events' = ChannelSend(events, ChargerEventOf(next_state))
                        /\ charger_state' = next_state
                        /\ ci_pc' = "select"
    /\ UNCHANGED <<envVars, mode, button_state, exit, power, effect_stack,
                   biVars, mainVars, rn_pc, edgeHist, hold_count, mainHist,
                   harnessVars>>

\* the suspended send of charger_input goes through
ChargerSent ==
    /\ CanRun("charger")
    /\ ci_pc = "send"
    /\ ~ChannelFull(events)
    /\ events' = ChannelSend(events, ChargerEventOf(ci_charger_state))
    /\ charger_state' = ci_charger_state
    /\ ci_pc' = "select"
    /\ running' = "charger"
    /\ UNCHANGED <<envVars, mode, button_state, exit, power, effect_stack,
                   ci_charger_state, ci_last_event, biVars, mainVars, rn_pc,
                   edgeHist, hold_count, mainHist, harnessVars>>

\* Either::Second of charger_input
ChargerExit ==
    /\ CanRun("charger")
    /\ ci_pc \in {"select", "spin"}
    /\ CiSelect = "Third"
    /\ exit' = ExitPropagated(exit)
    /\ ci_pc' = "done"
    /\ running' = "none"
    /\ UNCHANGED <<envVars, mode, button_state, charger_state, events, power,
                   effect_stack, ci_charger_state, ci_last_event, biVars,
                   mainVars, rn_pc, edgeHist, hold_count, mainHist, harnessVars>>

(* --------------------------------- main -------------------------------- *)

\* State::set_mode, with the history of the modes set
SetMode(m) ==
    /\ mode' = m
    /\ mode_trace' = IF Len(mode_trace) < MaxTrace THEN Append(mode_trace, m)
                     ELSE mode_trace

\* state.events.receive(): the front event is taken; the history notes it
Receive ==
    /\ events' = ChannelReceive(events).rest
    /\ received' = ChannelReceive(events).msg
    /\ first_event' = IF first_event = "none" THEN ChannelReceive(events).msg
                      ELSE first_event

\* the test of the Shutdown debounce: state.get_button_state().is_held()
NeedsDebounce(s) == s.held

\* a faulty variant of EndsDebounce: any event ends the loop
EndsOnAnyEvent(e) == TRUE

\* the test that ends the Shutdown debounce loop:
\* matches!(event, Event::ButtonRelease)
EndsDebounce(e) == e = "ButtonRelease"

\* Mode::PreStartup, up to the await of the settle timer
MainPreStartup ==
    /\ CanRun("main")
    /\ main_pc = "loop"
    /\ mode = "PreStartup"
    /\ timer' = SETTLE_MS
    /\ main_pc' = "settle"
    /\ running' = "main"
    /\ UNCHANGED <<envVars, sharedVars, biVars, ciVars, initial_hold, rn_pc,
                   edgeHist, hold_count, mainHist, harnessVars>>

\* Mode::PreStartup after the timer: the spawned tasks have been polled once
\* by then; initial_hold is read and the mode set to Startup
MainSettled ==
    /\ CanRun("main")
    /\ main_pc = "settle"
    /\ timer = 0
    /\ bi_pc # "init" /\ ci_pc # "init"
    /\ ~ButtonGuardHeld
    /\ initial_hold' = button_state.held
    /\ SetMode("Startup")
    /\ main_pc' = "loop"
    /\ running' = "main"
    /\ UNCHANGED <<envVars, button_state, charger_state, events, exit, power,
                   effect_stack, biVars, ciVars, timer, rn_pc, edgeHist,
                   hold_count, debounced, discarded, received, first_event,
                   harnessVars>>

\* a faulty variant of MainStartup: the hold flag is tested before the
\* charger
MainStartupHoldFirst ==
    /\ CanRun("main")
    /\ main_pc = "loop"
    /\ mode = "Startup"
    /\ ~ChargerGuardHeld
    /\ IF ~initial_hold
       THEN SetMode("Shutdown") /\ main_pc' = "loop"
       ELSE IF charger_state = "PluggedIn"
            THEN SetMode("PreCharging") /\ main_pc' = "loop"
            ELSE main_pc' = "startup_recv" /\ UNCHANGED <<mode, mode_trace>>
    /\ running' = "main"
    /\ UNCHANGED <<envVars, button_state, charger_state, events, exit, power,
                   effect_stack, biVars, ciVars, initial_hold, timer, rn_pc,
                   edgeHist, hold_count, debounced, discarded, received,
                   first_event, harnessVars>>

\* Mode::Startup up to its receive
MainStartup ==
    /\ CanRun("main")
    /\ main_pc = "loop"
    /\ mode = "Startup"
    /\ ~ChargerGuardHeld
    /\ IF charger_state = "PluggedIn"
       THEN SetMode("PreCharging") /\ main_pc' = "loop"
       ELSE IF ~initial_hold
            THEN SetMode("Shutdown") /\ main_pc' = "loop"
            ELSE main_pc' = "startup_recv" /\ UNCHANGED <<mode, mode_trace>>
    /\ running' = "main"
    /\ UNCHANGED <<envVars, button_state, charger_state, events, exit, power,
                   effect_stack, biVars, ciVars, initial_hold, timer, rn_pc,
                   edgeHist, hold_count, debounced, discarded, received,
                   first_event, harnessVars>>

\* Mode::Startup: the match on the received event
MainStartupEvent ==
    /\ CanRun("main")
    /\ main_pc = "startup_recv"
    /\ events # <<>>
    /\ Receive
    /\ LET e == ChannelReceive(events).msg
       IN  CASE e = "ButtonHold" ->
                   /\ power' = "On"
                   /\ SetMode("PreMain")
                   /\ UNCHANGED initial_hold
             [] e \in {"ButtonPress", "ButtonRelease"} ->
                   /\ initial_hold' = FALSE
                   /\ SetMode("Shutdown")
                   /\ UNCHANGED power
             [] e = "ChargerPluggedIn" ->
                   /\ SetMode("PreCharging")
                   /\ UNCHANGED <<power, initial_hold>>
             [] OTHER -> UNCHANGED <<power, initial_hold, mode, mode_trace>>
    /\ main_pc' = "loop"
    /\ running' = "main"
    /\ UNCHANGED <<envVars, button_state, charger_state, exit, effect_stack,
                   biVars, ciVars, timer, rn_pc, edgeHist, hold_count,
                   debounced, discarded, harnessVars>>

\* Mode::PreCharging and Mode::PreMain: the visual is pushed inside a
\* fade-in once the stack's guard is free
MainPrepare ==
    /\ CanRun("main")
    /\ main_pc = "loop"
    /\ mode \in {"PreCharging", "PreMain"}
    /\ ~StackLocked
    /\ effect_stack' = AddFadeIn(effect_stack,
                                 IF mode = "PreCharging" THEN ChargingEffect
                                 ELSE MainEffect, FADE_IN_MS)
    /\ SetMode(IF mode = "PreCharging" THEN "Charging" ELSE "Main")
    /\ running' = "main"
    /\ UNCHANGED <<envVars, button_state, charger_state, events, exit, power,
                   biVars, ciVars, mainVars, rn_pc, edgeHist, hold_count,
                   debounced, discarded, received, first_event, harnessVars>>

\* a faulty variant of MainCharging: ChargerUnplugged leads to PreMain
\* whatever the power state
MainChargingAnyPower ==
    /\ CanRun("main")
    /\ main_pc = "loop"
    /\ mode = "Charging"
    /\ events # <<>>
    /\ Receive
    /\ LET e == ChannelReceive(events).msg
       IN  CASE e = "ButtonHold" ->
                   /\ power' = Not(power)
                   /\ UNCHANGED <<effect_stack, mode, mode_trace, main_pc>>
             [] e = "ChargerUnplugged" /\ StackLocked ->
                   /\ main_pc' = "stack_wait"
                   /\ UNCHANGED <<power, effect_stack, mode, mode_trace>>
             [] e = "ChargerUnplugged" /\ ~StackLocked ->
                   /\ effect_stack' = DrainAndFadeOut(effect_stack, FADE_OUT_MS)
                   /\ SetMode("PreMain")
                   /\ UNCHANGED <<power, main_pc>>
             [] OTHER ->
                   UNCHANGED <<power, effect_stack, mode, mode_trace, main_pc>>
    /\ running' = "main"
    /\ UNCHANGED <<envVars, button_state, charger_state, exit, biVars, ciVars,
                   initial_hold, timer, rn_pc, edgeHist, hold_count, debounced,
                   discarded, harnessVars>>

\* Mode::Charging: the match on the received event
MainCharging ==
    /\ CanRun("main")
    /\ main_pc = "loop"
    /\ mode = "Charging"
    /\ events # <<>>
    /\ Receive
    /\ LET e == ChannelReceive(events).msg
       IN  CASE e = "ButtonHold" ->
                   /\ power' = Not(power)
                   /\ UNCHANGED <<effect_stack, mode, mode_trace, main_pc>>
             [] e = "ChargerUnplugged" /\ power = "On" /\ StackLocked ->
                   /\ main_pc' = "stack_wait"
                   /\ UNCHANGED <<power, effect_stack, mode, mode_trace>>
             [] e = "ChargerUnplugged" /\ power = "On" /\ ~StackLocked ->
                   /\ effect_stack' = DrainAndFadeOut(effect_stack, FADE_OUT_MS)
                   /\ SetMode("PreMain")
                   /\ UNCHANGED <<power, main_pc>>
             [] e = "ChargerUnplugged" /\ power = "Off" ->
                   /\ SetMode("Shutdown")
                   /\ UNCHANGED <<power, effect_stack, main_pc>>
             [] OTHER ->
                   UNCHANGED <<power, effect_stack, mode, mode_trace, main_pc>>
    /\ running' = "main"
    /\ UNCHANGED <<envVars, button_state, charger_state, exit, biVars, ciVars,
                   initial_hold, timer, rn_pc, edgeHist, hold_count, debounced,
                   discarded, harnessVars>>

\* a faulty variant of MainMain: ButtonRelease falls into the catch-all arm
\* and leaves the initial-hold flag set
MainMainReleaseKept ==
    /\ CanRun("main")
    /\ main_pc = "loop"
    /\ mode = "Main"
    /\ events # <<>>
    /\ Receive
    /\ LET e == ChannelReceive(events).msg
       IN  CASE e = "ButtonPress" ->
                   /\ initial_hold' = FALSE
                   /\ UNCHANGED <<power, effect_stack, mode, mode_trace, main_pc>>
             [] e = "ButtonHold" /\ initial_hold ->
                   /\ SetMode("Pairing")
                   /\ UNCHANGED <<power, effect_stack, initial_hold, main_pc>>
             [] e = "ButtonHold" /\ ~initial_hold ->
                   /\ power' = "Off"
                   /\ SetMode("Shutdown")
                   /\ UNCHANGED <<effect_stack, initial_hold, main_pc>>
             [] e = "ChargerPluggedIn" /\ StackLocked ->
                   /\ main_pc' = "stack_wait"
                   /\ UNCHANGED <<power, effect_stack, initial_hold, mode,
                                  mode_trace>>
             [] e = "ChargerPluggedIn" /\ ~StackLocked ->
                   /\ effect_stack' = DrainAndFadeOut(effect_stack, FADE_OUT_MS)
                   /\ SetMode("PreCharging")
                   /\ UNCHANGED <<power, initial_hold, main_pc>>
             [] OTHER ->
                   UNCHANGED <<power, effect_stack, initial_hold, mode,
                               mode_trace, main_pc>>
    /\ running' = "main"
    /\ UNCHANGED <<envVars, button_state, charger_state, exit, biVars, ciVars,
                   timer, rn_pc, edgeHist, hold_count, debounced, discarded,
                   harnessVars>>

\* Mode::Main: the match on the received event
MainMain ==
    /\ CanRun("main")
    /\ main_pc = "loop"
    /\ mode = "Main"
    /\ events # <<>>
    /\ Receive
    /\ LET e == ChannelReceive(events).msg
       IN  CASE e \in {"ButtonPress", "ButtonRelease"} ->
                   /\ initial_hold' = FALSE
                   /\ UNCHANGED <<power, effect_stack, mode, mode_trace, main_pc>>
             [] e = "ButtonHold" /\ initial_hold ->
                   /\ SetMode("Pairing")
                   /\ UNCHANGED <<power, effect_stack, initial_hold, main_pc>>
             [] e = "ButtonHold" /\ ~initial_hold ->
                   /\ power' = "Off"
                   /\ SetMode("Shutdown")
                   /\ UNCHANGED <<effect_stack, initial_hold, main_pc>>
             [] e = "ChargerPluggedIn" /\ StackLocked ->
                   /\ main_pc' = "stack_wait"
                   /\ UNCHANGED <<power, effect_stack, initial_hold, mode,
                                  mode_trace>>
             [] e = "ChargerPluggedIn" /\ ~StackLocked ->
                   /\ effect_stack' = DrainAndFadeOut(effect_stack, FADE_OUT_MS)
                   /\ SetMode("PreCharging")
                   /\ UNCHANGED <<power, initial_hold, main_pc>>
             [] OTHER ->
                   UNCHANGED <<power, effect_stack, initial_hold, mode,
                               mode_trace, main_pc>>
    /\ running' = "main"
    /\ UNCHANGED <<envVars, button_state, charger_state, exit, biVars, ciVars,
                   timer, rn_pc, edgeHist, hold_count, debounced, discarded,
                   harnessVars>>

\* Charging on ChargerUnplugged and Main on ChargerPluggedIn, suspended on
\* the stack's guard: the stack is drained into a fade-out once it is free
MainStackAcquired ==
    /\ CanRun("main")
    /\ main_pc = "stack_wait"
    /\ ~StackLocked
    /\ effect_stack' = DrainAndFadeOut(effect_stack, FADE_OUT_MS)
    /\ SetMode(IF mode = "Charging" THEN "PreMain" ELSE "PreCharging")
    /\ main_pc' = "loop"
    /\ running' = "main"
    /\ UNCHANGED <<envVars, button_state, charger_state, events, exit, power,
                   biVars, ciVars, initial_hold, timer, rn_pc, edgeHist,
                   hold_count, debounced, discarded, received, first_event,
                   harnessVars>>

\* Mode::PrePairing and Mode::Pairing, up to the await of the timer
MainPairing ==
    /\ CanRun("main")
    /\ main_pc = "loop"
    /\ mode \in {"PrePairing", "Pairing"}
    /\ IF mode = "PrePairing"
       THEN SetMode("Pairing") /\ UNCHANGED <<timer, main_pc>>
       ELSE /\ timer' = PAIRING_MS
            /\ main_pc' = "pairing"
            /\ UNCHANGED <<mode, mode_trace>>
    /\ running' = "main"
    /\ UNCHANGED <<envVars, button_state, charger_state, events, exit, power,
                   effect_stack, biVars, ciVars, initial_hold, rn_pc, edgeHist,
                   hold_count, debounced, discarded, received, first_event,
                   harnessVars>>

\* a faulty variant of MainPairingElapsed: after its timer Pairing goes
\* back to Main
MainPairingElapsedToMain ==
    /\ CanRun("main")
    /\ main_pc = "pairing"
    /\ timer = 0
    /\ main_pc' = "loop"
    /\ SetMode("Main")
    /\ running' = "main"
    /\ UNCHANGED <<envVars, button_state, charger_state, events, exit, power,
                   effect_stack, biVars, ciVars, initial_hold, timer, rn_pc,
                   edgeHist, hold_count, debounced, discarded, received,
                   first_event, harnessVars>>

\* Mode::Pairing after its timer
MainPairingElapsed ==
    /\ CanRun("main")
    /\ main_pc = "pairing"
    /\ timer = 0
    /\ main_pc' = "loop"
    /\ running' = "main"
    /\ UNCHANGED <<envVars, sharedVars, biVars, ciVars, initial_hold, timer,
                   rn_pc, edgeHist, hold_count, mainHist, harnessVars>>

\* where Shutdown goes after get_button_state
AfterButtonCheck ==
    IF NeedsDebounce(button_state)
    THEN main_pc' = "debounce" /\ debounced' = "waiting"
    ELSE main_pc' = "fade_wait" /\ UNCHANGED debounced

\* Mode::Shutdown up to its first suspension: the stack is drained into a
\* 500 ms fade-out and the timer made, then the button state is read
MainShutdown ==
    /\ CanRun("main")
    /\ main_pc = "loop"
    /\ mode = "Shutdown"
    /\ ~StackLocked
    /\ IF effect_stack # <<>>
       THEN /\ effect_stack' = DrainAndFadeOut(effect_stack, SHUTDOWN_FADE_MS)
            /\ timer' = SHUTDOWN_FADE_MS
       ELSE /\ timer' = 0
            /\ UNCHANGED effect_stack
    /\ IF ButtonGuardHeld
       THEN main_pc' = "button_wait" /\ UNCHANGED debounced
       ELSE AfterButtonCheck
    /\ running' = "main"
    /\ UNCHANGED <<envVars, mode, button_state, charger_state, events, exit,
                   power, biVars, ciVars, initial_hold, rn_pc, edgeHist,
                   hold_count, discarded, received, first_event, mode_trace,
                   harnessVars>>

\* Mode::Shutdown: get_button_state returns once the guard is free
MainButtonAcquired ==
    /\ CanRun("main")
    /\ main_pc = "button_wait"
    /\ ~ButtonGuardHeld
    /\ AfterButtonCheck
    /\ running' = "main"
    /\ UNCHANGED <<envVars, sharedVars, biVars, ciVars, initial_hold, timer,
                   rn_pc, edgeHist, hold_count, discarded, received,
                   first_event, mode_trace, harnessVars>>

\* Mode::Shutdown: one round of the debounce loop
MainDebounce ==
    /\ CanRun("main")
    /\ main_pc = "debounce"
    /\ events # <<>>
    /\ Receive
    /\ IF EndsDebounce(ChannelReceive(events).msg)
       THEN /\ main_pc' = "fade_wait"
            /\ debounced' = "released"
            /\ UNCHANGED discarded
       ELSE /\ discarded' = TRUE
            /\ UNCHANGED <<main_pc, debounced>>
    /\ running' = "main"
    /\ UNCHANGED <<envVars, mode, button_state, charger_state, exit, power,
                   effect_stack, biVars, ciVars, initial_hold, timer, rn_pc,
                   edgeHist, hold_count, mode_trace, harnessVars>>

\* a faulty variant of MainSignalExit: effect_fade_out is not awaited
MainSignalExitEarly ==
    /\ CanRun("main")
    /\ main_pc = "fade_wait"
    /\ exit' = SignalSignal(exit)
    /\ timer' = GRACE_MS
    /\ main_pc' = "grace"
    /\ running' = "main"
    /\ UNCHANGED <<envVars, mode, button_state, charger_state, events, power,
                   effect_stack, biVars, ciVars, initial_hold, rn_pc, edgeHist,
                   hold_count, mainHist, harnessVars>>

\* Mode::Shutdown: effect_fade_out is over; exit is signalled and the grace
\* timer awaited
MainSignalExit ==
    /\ CanRun("main")
    /\ main_pc = "fade_wait"
    /\ timer = 0
    /\ exit' = SignalSignal(exit)
    /\ timer' = GRACE_MS
    /\ main_pc' = "grace"
    /\ running' = "main"
    /\ UNCHANGED <<envVars, mode, button_state, charger_state, events, power,
                   effect_stack, biVars, ciVars, initial_hold, rn_pc, edgeHist,
                   hold_count, mainHist, harnessVars>>

\* Mode::Shutdown: Power::turn_off; the chip goes to deep sleep
MainTurnOff ==
    /\ CanRun("main")
    /\ main_pc = "grace"
    /\ timer = 0
    /\ ~ExitPending
    /\ main_pc' = "off"
    /\ running' = "main"
    /\ UNCHANGED <<envVars, sharedVars, biVars, ciVars, initial_hold, timer,
                   rn_pc, edgeHist, hold_count, mainHist, harnessVars>>

(* ------------------------------- renderer ------------------------------ *)

\* one frame of the renderer up to the first yield after it took the
\* stack's guard: update, then apply; the guard stays held across the
\* yields of apply
RenderFrame ==
    /\ CanRun("renderer")
    /\ rn_pc = "frame"
    /\ effect_stack' = VecUpdate(effect_stack)
    /\ rn_pc' = IF ApplyYields(VecEffect(effect_stack')) THEN "apply"
                ELSE "frame"
    /\ running' = "none"
    /\ UNCHANGED <<envVars, mode, button_state, charger_state, events, exit,
                   power, biVars, ciVars, mainVars, edgeHist, hold_count,
                   mainHist, harnessVars>>

\* apply is over: the guard is dropped, the frame is encoded and sent
RenderApplied ==
    /\ CanRun("renderer")
    /\ rn_pc = "apply"
    /\ rn_pc' = "frame"
    /\ running' = "none"
    /\ UNCHANGED <<envVars, sharedVars, biVars, ciVars, mainVars, edgeHist,
                   hold_count, mainHist, harnessVars>>

(* ---------------------------- specification ---------------------------- *)

Next ==
    \/ ButtonEdge
    \/ ChargerEdge
    \/ Tick
    \/ ButtonStart
    \/ ButtonChanged
    \/ ButtonHeld
    \/ ButtonSent
    \/ ButtonExit
    \/ ChargerStart
    \/ ChargerChanged
    \/ ChargerSent
    \/ ChargerExit
    \/ MainPreStartup
    \/ MainSettled
    \/ MainStartup
    \/ MainStartupEvent
    \/ MainPrepare
    \/ MainCharging
    \/ MainMain
    \/ MainStackAcquired
    \/ MainPairing
    \/ MainPairingElapsed
    \/ MainShutdown
    \/ MainButtonAcquired
    \/ MainDebounce
    \/ MainSignalExit
    \/ MainTurnOff
    \/ RenderFrame
    \/ RenderApplied

Spec == Init /\ [][Next]_vars

(* ------------------- Vec<Box<dyn Effect>>::apply alone ------------------ *)

\* the members the sequences handed to apply are built from: two solid
\* colours, the two blending effects, an empty and an Opaque nested sequence
ApplyMembers ==
    { RgbEffect("A"), RgbEffect("C"),
      SinePulseEffect(MAIN_PERIOD_MS, NoEffect),
      FadeTransitionEffect("In", FADE_IN_MS, NoEffect),
      VecEffect(<<>>), VecEffect(<<RgbEffect("A")>>) }

ApplyInputs == UNION {[1..n -> ApplyMembers] : n \in 0..MaxLen}

\* the firmware at rest while one function is exercised
SystemParked == SystemInit /\ button_pin = "High" /\ charger_pin = "Low"

InitApply ==
    /\ SystemParked
    /\ av \in ApplyInputs
    /\ a_next = -1
    /\ applied = <<>>
    /\ FadeIdle
    /\ UpdateIdle
    /\ PulseIdle
    /\ TransmitIdle

\* apply up to its loop: the early return on an empty sequence, else
\* `first` is computed and the iterator skips to it
ApplyBegin ==
    /\ a_next = -1
    /\ a_next' = IF av = <<>> THEN 0 ELSE ApplyFirst(av)
    /\ UNCHANGED <<systemVars, av, applied, fadeVars, updateVars, pulseVars, txVars>>

\* one round of the loop: effect.apply(buffer).await on the next member
ApplyMember ==
    /\ a_next >= 0
    /\ a_next < Len(av)
    /\ applied' = Append(applied, a_next + 1)
    /\ a_next' = a_next + 1
    /\ UNCHANGED <<systemVars, av, fadeVars, updateVars, pulseVars, txVars>>

NextApply == ApplyBegin \/ ApplyMember

SpecApply == InitApply /\ [][NextApply]_vars

(* -------------------- FadeTransitionEffect::update alone ---------------- *)

\* the inner effects a fade under test wraps
FadeInners ==
    { NoEffect, RgbEffect("A"), SinePulseEffect(MAIN_PERIOD_MS, RgbEffect("A")),
      VecEffect(<<RgbEffect("A")>>),
      FadeTransitionEffect("Out", SHUTDOWN_FADE_MS, RgbEffect("A")),
      FadeTransitionEffect("In", SHUTDOWN_FADE_MS, RgbEffect("A")),
      SinePulseEffect(MAIN_PERIOD_MS,
                      FadeTransitionEffect("Out", SHUTDOWN_FADE_MS, NoEffect)) }

FadeSubjects ==
    { FadeTransitionEffect(dir, duration, w) :
        dir \in {"In", "Out"}, duration \in {FADE_IN_MS, FADE_OUT_MS},
        w \in FadeInners }

InitFade ==
    /\ SystemParked
    /\ ApplyIdle
    /\ UpdateIdle
    /\ PulseIdle
    /\ TransmitIdle
    /\ fx \in FadeSubjects
    /\ fx_ev = "NotRun"
    /\ fx_new = NoEffect
    /\ fx_fresh = FALSE

\* the owner of the fade calls update while the fade is still in place
FadeUpdate ==
    /\ fx_ev \notin {"Remove", "Replace"}
    /\ fx' = UpdateEffect(fx).self
    /\ fx_ev' = UpdateEffect(fx).ev
    /\ fx_new' = UpdateEffect(fx).new
    /\ fx_fresh' = TRUE
    /\ UNCHANGED <<systemVars, applyVars, updateVars, pulseVars, txVars>>

\* time passes between two updates: half the shortest fade, or up to the
\* next moment a fade comes due
FadeTick ==
    /\ fx_ev \notin {"Remove", "Replace"}
    /\ EffectDeadlines(fx) # {}
    /\ \E d \in {SHUTDOWN_FADE_MS \div 2, Min(EffectDeadlines(fx))} :
          fx' = AgeEffect(fx, d)
    /\ fx_fresh' = FALSE
    /\ UNCHANGED <<systemVars, applyVars, updateVars, pulseVars, txVars, fx_ev, fx_new>>

NextFade == FadeUpdate \/ FadeTick

SpecFade == InitFade /\ [][NextFade]_vars

(* ------------------ Vec<Box<dyn Effect>>::update alone ------------------ *)

\* a fade whose start.elapsed() has reached its duration
FadeDue(dir, wrapped) ==
    [FadeTransitionEffect(dir, SHUTDOWN_FADE_MS, wrapped)
        EXCEPT !.age = SHUTDOWN_FADE_MS]

\* the members the sequences handed to update are built from: an Opaque
\* colour (None), a fade-in that is over (Replace), a fade-out that is over
\* (Remove), a fade that is not over (None), a pulse whose inner fade-out is
\* over (Remove) and a nested sequence that loses its member (None)
UpdateMembers ==
    { RgbEffect("A"),
      FadeDue("In", RgbEffect("C")),
      FadeDue("Out", RgbEffect("C")),
      FadeTransitionEffect("In", FADE_IN_MS, FadeDue("In", RgbEffect("C"))),
      SinePulseEffect(MAIN_PERIOD_MS, FadeDue("Out", NoEffect)),
      VecEffect(<<FadeDue("Out", NoEffect)>>) }

UpdateInputs == UNION {[1..n -> UpdateMembers] : n \in 0..MaxLen}

InitUpdate ==
    /\ SystemParked
    /\ ApplyIdle
    /\ FadeIdle
    /\ PulseIdle
    /\ TransmitIdle
    /\ uv \in UpdateInputs
    /\ u_in = uv
    /\ u_next = -1
    /\ removals = <<>>
    /\ u_calls = [i \in DOMAIN uv |-> 0]
    /\ u_ev = "NotRun"

\* Vec::remove(i): the members after position i move down by one
RemoveAt(s, i) == SubSeq(s, 1, i - 1) \o SubSeq(s, i + 1, Len(s))

\* a faulty variant of RevNext: removals is walked front to back
FwdNext(r) == [i |-> r[1], rest |-> Tail(r)]

\* removals.into_iter().rev(): the index taken next and the ones left
RevNext(r) == [i |-> r[Len(r)], rest |-> SubSeq(r, 1, Len(r) - 1)]

\* update up to its first loop: removals = Vec::with_capacity(self.len())
UpdateBegin ==
    /\ u_next = -1
    /\ removals' = <<>>
    /\ u_next' = 0
    /\ UNCHANGED <<systemVars, applyVars, fadeVars, pulseVars, txVars, uv, u_in, u_calls, u_ev>>

\* one round of the first loop: effect.update(elapsed) on the next member
\* and the match on what it returns
UpdateMember ==
    /\ u_next >= 0
    /\ u_next < Len(u_in)
    /\ LET i == u_next + 1
           r == UpdateEffect(uv[i])
       IN  /\ uv' = [uv EXCEPT ![i] = IF r.ev = "Replace" THEN r.new
                                      ELSE r.self]
           /\ removals' = IF r.ev = "Remove" THEN Append(removals, i)
                          ELSE removals
           /\ u_calls' = [u_calls EXCEPT ![i] = @ + 1]
    /\ u_next' = u_next + 1
    /\ UNCHANGED <<systemVars, applyVars, fadeVars, pulseVars, txVars, u_in, u_ev>>

\* one round of the second loop: self.remove(i)
UpdateRemove ==
    /\ u_next = Len(u_in)
    /\ removals # <<>>
    /\ uv' = RemoveAt(uv, RevNext(removals).i)
    /\ removals' = RevNext(removals).rest
    /\ UNCHANGED <<systemVars, applyVars, fadeVars, pulseVars, txVars, u_in, u_next, u_calls,
                   u_ev>>

\* the value of update: None
UpdateReturn ==
    /\ u_next = Len(u_in)
    /\ removals = <<>>
    /\ u_ev = "NotRun"
    /\ u_ev' = "None"
    /\ UNCHANGED <<systemVars, applyVars, fadeVars, pulseVars, txVars, uv, u_in, u_next,
                   removals, u_calls>>

NextUpdate == UpdateBegin \/ UpdateMember \/ UpdateRemove \/ UpdateReturn

SpecUpdate == InitUpdate /\ [][NextUpdate]_vars

(* ------------------------- write_pulses alone --------------------------- *)

\* render::LED_COUNT
LED_COUNT == 200

\* render::ONE: PulseCode::new(Level::High, 64, Level::Low, 36)
ONE == 2392128

\* render::ZERO: PulseCode::new(Level::High, 36, Level::Low, 64)
ZERO == 4227108

\* what Rgb::quantize_u8 gives for the pixels written: black, white and two
\* colours whose channels differ in every bit position
Quantized ==
    { [r |-> 0, g |-> 0, b |-> 0], [r |-> 255, g |-> 255, b |-> 255],
      [r |-> 128, g |-> 1, b |-> 165], [r |-> 2, g |-> 64, b |-> 90] }

\* the colour with every bit of every channel of q flipped
Inverse(q) == [r |-> 255 - q.r, g |-> 255 - q.g, b |-> 255 - q.b]

\* the render buffers handed to write_pulses, as the quantized channels of
\* their pixels after gamma and colour correction: a colour and its inverse
\* alternating
Frames ==
    { [i \in 1..LED_COUNT |-> IF i % 2 = 1 THEN c ELSE Inverse(c)] :
        c \in Quantized }

\* value & mask for a mask of one bit
BitAnd(value, mask) == ((value \div mask) % 2) * mask

RECURSIVE write_u8(_, _, _)
\* write_u8 inside Rgb::write_pulses: n pulses from `mask` down, the mask
\* shifted right after each
write_u8(value, mask, n) ==
    IF n = 0 THEN <<>>
    ELSE <<IF BitAnd(value, mask) # 0 THEN ONE ELSE ZERO>>
            \o write_u8(value, mask \div 2, n - 1)

\* a faulty variant of RgbWritePulses: the channels are written in the
\* order r, g, b
RgbWritePulsesInRgbOrder(q) ==
    write_u8(q.r, 128, 8) \o write_u8(q.g, 128, 8) \o write_u8(q.b, 128, 8)

\* Rgb::write_pulses on the quantized pixel q: pulses[0..8] from g,
\* pulses[8..16] from r, pulses[16..24] from b
RgbWritePulses(q) ==
    write_u8(q.g, 128, 8) \o write_u8(q.r, 128, 8) \o write_u8(q.b, 128, 8)

\* renderer before its loop: render_buffer black, pulse_buffer ZERO with its
\* last entry set to 0
InitPulse ==
    /\ SystemParked
    /\ ApplyIdle
    /\ FadeIdle
    /\ UpdateIdle
    /\ TransmitIdle
    /\ rb = [i \in 1..LED_COUNT |-> [r |-> 0, g |-> 0, b |-> 0]]
    /\ pb = [j \in 1..(LED_COUNT * 24 + 1) |->
                IF j = LED_COUNT * 24 + 1 THEN 0 ELSE ZERO]
    /\ p_next = -1

\* a round of the renderer's loop up to the call of write_pulses: the
\* effects have drawn a frame into render_buffer
PulseFrame ==
    /\ p_next \in {-1, LED_COUNT}
    /\ rb' \in Frames
    /\ p_next' = 0
    /\ UNCHANGED <<systemVars, applyVars, fadeVars, updateVars, txVars, pb>>

\* one round of the loop of write_pulses: pixel i writes
\* pulse_buffer[i * 24..(i + 1) * 24]
PulsePixel ==
    /\ p_next >= 0
    /\ p_next < LED_COUNT
    /\ pb' = SubSeq(pb, 1, p_next * 24)
                \o RgbWritePulses(rb[p_next + 1])
                \o SubSeq(pb, (p_next + 1) * 24 + 1, Len(pb))
    /\ p_next' = p_next + 1
    /\ UNCHANGED <<systemVars, applyVars, fadeVars, updateVars, txVars, rb>>

NextPulse == PulseFrame \/ PulsePixel

SpecPulse == InitPulse /\ [][NextPulse]_vars

(* --------------------------- transmit alone ----------------------------- *)

\* esp_hal::constants::RMT_CHANNEL_RAM_SIZE
RMT_CHANNEL_RAM_SIZE == 48

\* data.len() of the pulse buffer of the renderer
DataLen == LED_COUNT * 24 + 1

\* the lengths of data transmit is entered with: shorter than the RMT
\* memory, as long, longer by one, by half, by more than one half, and the
\* renderer's
DataLens ==
    {1, RMT_CHANNEL_RAM_SIZE, RMT_CHANNEL_RAM_SIZE + 1,
     RMT_CHANNEL_RAM_SIZE + RMT_CHANNEL_RAM_SIZE \div 2,
     RMT_CHANNEL_RAM_SIZE * 2 + 5, DataLen}

\* transmit is entered with whatever the flags of the channel show after
\* the frames before
InitTransmit ==
    /\ SystemParked
    /\ ApplyIdle
    /\ FadeIdle
    /\ UpdateIdle
    /\ PulseIdle
    /\ tx_pc = "start"
    /\ tx_index = 0
    /\ tx_ram = 0
    /\ tx_err \in BOOLEAN
    /\ tx_thr \in BOOLEAN
    /\ tx_end \in BOOLEAN
    /\ tx_result = "none"
    /\ tx_checked = FALSE
    /\ tx_late = 0
    /\ tx_len \in DataLens
    /\ tx_from = 0
    /\ tx_n = 0
    /\ tx_written = 0

\* clear_interrupts, listen_interrupt and send_raw: the flags are cleared,
\* the first chunk is loaded and the transmission begun
TxLoad ==
    /\ tx_pc = "start"
    /\ tx_err' = FALSE
    /\ tx_thr' = FALSE
    /\ tx_end' = FALSE
    /\ tx_index' = Min({RMT_CHANNEL_RAM_SIZE, tx_len})
    /\ tx_from' = 0
    /\ tx_n' = Min({RMT_CHANNEL_RAM_SIZE, tx_len})
    /\ tx_written' = tx_written + tx_n'
    /\ tx_pc' = "check"
    /\ UNCHANGED <<systemVars, applyVars, fadeVars, updateVars, pulseVars,
                   tx_ram, tx_result, tx_checked, tx_late, tx_len>>

\* a faulty variant of TxCheck: the loop does not test the error flag
TxCheckSkipsError ==
    /\ tx_pc = "check"
    /\ tx_pc' = IF tx_index >= tx_len THEN "final" ELSE "wait"
    /\ UNCHANGED <<systemVars, applyVars, fadeVars, updateVars, pulseVars,
                   tx_index, tx_ram, tx_err, tx_thr, tx_end, tx_result,
                   tx_checked, tx_late,
                   tx_len, tx_from, tx_n, tx_written>>

\* the top of the loop: the test of is_error, the test of index, yield_now
TxCheck ==
    /\ tx_pc = "check"
    /\ IF tx_err
       THEN /\ tx_result' = "TransmissionError"
            /\ tx_checked' = TRUE
            /\ tx_pc' = "done"
       ELSE /\ tx_pc' = IF tx_index >= tx_len THEN "final" ELSE "wait"
            /\ UNCHANGED <<tx_result, tx_checked>>
    /\ UNCHANGED <<systemVars, applyVars, fadeVars, updateVars, pulseVars,
                   tx_index, tx_ram, tx_err, tx_thr, tx_end, tx_late,
                   tx_len, tx_from, tx_n, tx_written>>

\* a faulty variant of ram_index: every refill goes to the lower half
ram_index_lower(index) == 0

\* the offset in the RMT memory of the half the refill at index writes
ram_index(index) ==
    (((index - RMT_CHANNEL_RAM_SIZE) \div (RMT_CHANNEL_RAM_SIZE \div 2)) % 2)
        * (RMT_CHANNEL_RAM_SIZE \div 2)

\* the rest of the loop once is_threshold_set is true: the flag is reset,
\* the half of the RMT memory already sent is refilled, index advances
TxRefill ==
    /\ tx_pc = "wait"
    /\ tx_thr
    /\ tx_thr' = FALSE
    /\ tx_ram' = ram_index(tx_index)
    /\ tx_from' = tx_index
    /\ tx_n' = Min({RMT_CHANNEL_RAM_SIZE \div 2, tx_len - tx_index})
    /\ tx_written' = tx_written + tx_n'
    /\ tx_index' = tx_index + RMT_CHANNEL_RAM_SIZE \div 2
    /\ tx_late' = IF tx_err THEN tx_late + 1 ELSE tx_late
    /\ tx_pc' = "check"
    /\ UNCHANGED <<systemVars, applyVars, fadeVars, updateVars, pulseVars,
                   tx_err, tx_end, tx_result, tx_checked, tx_len>>

\* RmtTxFuture::new(channel).await: ready once the channel shows End or
\* Error
TxAwaited ==
    /\ tx_pc = "final"
    /\ tx_end \/ tx_err
    /\ tx_pc' = "last"
    /\ UNCHANGED <<systemVars, applyVars, fadeVars, updateVars, pulseVars,
                   tx_index, tx_ram, tx_err, tx_thr, tx_end, tx_result,
                   tx_checked, tx_late,
                   tx_len, tx_from, tx_n, tx_written>>

\* the last test of is_error and the value returned
TxReturn ==
    /\ tx_pc = "last"
    /\ tx_result' = IF tx_err THEN "TransmissionError" ELSE "Ok"
    /\ tx_checked' = tx_err
    /\ tx_pc' = "done"
    /\ UNCHANGED <<systemVars, applyVars, fadeVars, updateVars, pulseVars,
                   tx_index, tx_ram, tx_err, tx_thr, tx_end, tx_late,
                   tx_len, tx_from, tx_n, tx_written>>

\* transmit has begun the transmission and has not returned
Transmitting == tx_pc \in {"check", "wait", "final", "last"}

\* the transport raises its error flag; it stays raised until cleared
HwError ==
    /\ Transmitting
    /\ ~tx_err
    /\ tx_err' = TRUE
    /\ UNCHANGED <<systemVars, applyVars, fadeVars, updateVars, pulseVars,
                   tx_pc, tx_index, tx_ram, tx_thr, tx_end, tx_result,
                   tx_checked, tx_late,
                   tx_len, tx_from, tx_n, tx_written>>

\* the transmitter has sent half of the RMT memory
HwThreshold ==
    /\ Transmitting
    /\ ~tx_end
    /\ ~tx_thr
    /\ tx_thr' = TRUE
    /\ UNCHANGED <<systemVars, applyVars, fadeVars, updateVars, pulseVars,
                   tx_pc, tx_index, tx_ram, tx_err, tx_end, tx_result,
                   tx_checked, tx_late,
                   tx_len, tx_from, tx_n, tx_written>>

\* the transmitter has reached the terminator, which is loaded once index
\* has passed the end of data
HwEnd ==
    /\ Transmitting
    /\ tx_index >= tx_len
    /\ ~tx_end
    /\ tx_end' = TRUE
    /\ UNCHANGED <<systemVars, applyVars, fadeVars, updateVars, pulseVars,
                   tx_pc, tx_index, tx_ram, tx_err, tx_thr, tx_result,
                   tx_checked, tx_late,
                   tx_len, tx_from, tx_n, tx_written>>

NextTransmit ==
    \/ TxLoad
    \/ TxCheck
    \/ TxRefill
    \/ TxAwaited
    \/ TxReturn
    \/ HwError
    \/ HwThreshold
    \/ HwEnd

\* transmit runs when it can, and the transmitter goes on sending
SpecTransmit ==
    /\ InitTransmit
    /\ [][NextTransmit]_vars
    /\ WF_vars(TxLoad \/ TxCheck \/ TxRefill \/ TxAwaited \/ TxReturn)
    /\ WF_vars(HwThreshold)
    /\ WF_vars(HwEnd)

(* ------------------------------ properties ----------------------------- *)

\* a step in which button_input takes over a level change
ButtonAccepts ==
    bi_pc # "init" /\ bi_button_state'.held # bi_button_state.held

\* a step in which main receives the front event
MainReceives == events # <<>> /\ events' = Tail(events)

C1Step ==
    /\ ButtonAccepts => bi_last_event >= BUTTON_DEBOUNCE_TIME
    /\ (bi_pc # "init" /\ button_state'.held # button_state.held) =>
          /\ ButtonAccepts \/ bi_pc = "send_edge"
          /\ button_state'.held = bi_button_state'.held
          /\ events' = Append(events, ButtonEventOf(bi_button_state'))
    /\ (\E e \in {"ButtonPress", "ButtonRelease"} : events' = Append(events, e)) =>
          /\ ButtonAccepts \/ bi_pc = "send_edge"
          /\ button_state' = bi_button_state'

C3Waiting ==
    /\ debounced = "waiting" => exit = "None" /\ main_pc = "debounce"
    /\ main_pc = "debounce" => debounced = "waiting"
    /\ debounced = "released" => received = "ButtonRelease"

\* C3, second half: an event received in the debounce loop changes neither
\* mode, power nor the effect stack and does not signal exit; the loop is
\* left exactly when that event is ButtonRelease
C3Step ==
    (main_pc = "debounce" /\ MainReceives) =>
        /\ mode' = mode
        /\ power' = power
        /\ effect_stack' = effect_stack
        /\ exit' = exit
        /\ IF Head(events) = "ButtonRelease" THEN main_pc' = "fade_wait"
           ELSE main_pc' = "debounce"

\* C3: Shutdown with the button Held does not signal exit before a
\* ButtonRelease is received; every other event received meanwhile is
\* discarded without changing mode, power or effect stack
C3Debounce == []C3Waiting /\ [][C3Step]_vars

\* the debounce discarded an event, then saw the release, and exit was
\* signalled
C3Witness == debounced = "released" /\ discarded /\ exit = "Signaled"

\* C4, the steps of the queue: it changes only by main taking the front
\* event or by one event going to the back while there is room; an
\* accepted change or a fired hold timer is enqueued at once or, the queue
\* being full, leaves the monitor suspended with the queue untouched; a
\* suspended send ends only by enqueueing exactly its event
C4Step ==
    /\ events' # events =>
          \/ MainReceives /\ received' = Head(events)
          \/ /\ Len(events) < EVENTS_CAPACITY
             /\ \E e \in {"ButtonPress", "ButtonRelease", "ButtonHold",
                          "ChargerPluggedIn", "ChargerUnplugged"} :
                   events' = Append(events, e)
    /\ ButtonAccepts =>
          IF Len(events) < EVENTS_CAPACITY
          THEN events' = Append(events, ButtonEventOf(bi_button_state'))
          ELSE events' = events /\ bi_pc' = "send_edge"
    /\ (bi_pc \in {"select", "spin"} /\ bi_button_state.held
          /\ bi_button_state'.held /\ bi_button_state'.at < bi_button_state.at) =>
          IF Len(events) < EVENTS_CAPACITY
          THEN events' = Append(events, "ButtonHold")
          ELSE events' = events /\ bi_pc' = "send_hold"
    /\ (ci_pc # "init" /\ ci_charger_state' # ci_charger_state) =>
          IF Len(events) < EVENTS_CAPACITY
          THEN events' = Append(events, ChargerEventOf(ci_charger_state'))
          ELSE events' = events /\ ci_pc' = "send"
    /\ (bi_pc = "send_edge" /\ bi_pc' # bi_pc) =>
          events' = Append(events, ButtonEventOf(bi_button_state))
    /\ (bi_pc = "send_hold" /\ bi_pc' # bi_pc) =>
          events' = Append(events, "ButtonHold")
    /\ (ci_pc = "send" /\ ci_pc' # ci_pc) =>
          events' = Append(events, ChargerEventOf(ci_charger_state))
    /\ (bi_pc' \in {"send_edge", "send_hold"} /\ bi_pc' # bi_pc) =>
          Len(events) = EVENTS_CAPACITY
    /\ (ci_pc' = "send" /\ ci_pc' # ci_pc) => Len(events) = EVENTS_CAPACITY

\* C4: the queue is FIFO with capacity 10; a monitor publishing into a
\* full queue suspends and its event is enqueued exactly once
C4Queue == [](Len(events) <= EVENTS_CAPACITY) /\ [][C4Step]_vars

\* the queue is full and the button monitor is suspended in its send
C4Witness ==
    Len(events) = EVENTS_CAPACITY /\ bi_pc \in {"send_edge", "send_hold"}

\* C5: once main has signalled exit the signal stays set: a monitor that
\* has consumed it has signalled it again within the same step, and
\* signalling a set signal leaves it set
C5ExitStays ==
    /\ main_pc \in {"grace", "off"} => exit = "Signaled"
    /\ (bi_pc = "done" \/ ci_pc = "done") => exit = "Signaled"
    /\ SignalSignal(SignalSignal(exit)) = SignalSignal(exit)
    /\ ExitPropagated(SignalSignal(exit)) = SignalSignal(exit)

\* both monitors have consumed the signal and it is still set
C5Witness == exit = "Signaled" /\ bi_pc = "done" /\ ci_pc = "done"

\* the firmware under fair scheduling: a task that can go on is polled
\* eventually, and time does not stop while something is being timed
FairSpec ==
    /\ Spec
    /\ WF_vars(Tick)
    /\ WF_vars(ButtonStart \/ ButtonChanged \/ ButtonHeld \/ ButtonSent
                \/ ButtonExit)
    /\ WF_vars(ChargerStart \/ ChargerChanged \/ ChargerSent \/ ChargerExit)
    /\ WF_vars(MainPreStartup \/ MainSettled \/ MainStartup \/ MainStartupEvent
                \/ MainPrepare \/ MainCharging \/ MainMain \/ MainStackAcquired
                \/ MainPairing \/ MainPairingElapsed \/ MainShutdown
                \/ MainButtonAcquired \/ MainDebounce \/ MainSignalExit
                \/ MainTurnOff)
    /\ WF_vars(RenderFrame \/ RenderApplied)

ApplyDone == a_next = Len(av)

\* the positions C8 names: the topmost Opaque member and every member above
\* it, i.e. the members with no Opaque member strictly above them
ExpectedApplied ==
    {i \in DOMAIN av : \A j \in (i + 1)..Len(av) : DisplayMode(av[j]) # "Opaque"}

\* C8: apply applies exactly the topmost Opaque member and every member
\* above it, bottom to top, each once, and none below it; every member when
\* none is Opaque, nothing on an empty sequence; for
\* [Opaque A, Blend B, Opaque C, Blend D] the third and the fourth only
C8ApplyFromTopmostOpaque ==
    /\ \A k \in DOMAIN applied : applied[k] \in ExpectedApplied
    /\ \A k, l \in DOMAIN applied : k < l => applied[k] < applied[l]
    /\ ApplyDone =>
          /\ {applied[k] : k \in DOMAIN applied} = ExpectedApplied
          /\ av = <<>> => applied = <<>>
          /\ (\A i \in DOMAIN av : DisplayMode(av[i]) # "Opaque") =>
                applied = [i \in DOMAIN av |-> i]
          /\ av = <<RgbEffect("A"), SinePulseEffect(MAIN_PERIOD_MS, NoEffect),
                    RgbEffect("C"),
                    FadeTransitionEffect("In", FADE_IN_MS, NoEffect)>> =>
                applied = <<3, 4>>

\* apply has returned on [Opaque A, Blend B, Opaque C, Blend D]
C8Witness ==
    /\ ApplyDone
    /\ av = <<RgbEffect("A"), SinePulseEffect(MAIN_PERIOD_MS, NoEffect),
              RgbEffect("C"), FadeTransitionEffect("In", FADE_IN_MS, NoEffect)>>
    /\ applied = <<3, 4>>

\* an update of a fade-out whose result differs from the last one returns
\* Remove exactly when the fade's duration has elapsed
C9Step ==
    (fx.dir = "Out" /\ fx_ev' # fx_ev) =>
        ((fx_ev' = "Remove") <=> (fx.age >= fx.duration))

\* C9 as stated: whatever it wraps, a fade-out returns Remove from update
\* only once its duration has elapsed, and does so on the first update from
\* then on
C9Original == [][C9Step]_vars

\* the boot of C10 as far as the modes set so far show it: held and
\* unplugged at Startup, ButtonHold the first event received
BootedByHold ==
    /\ first_event = "ButtonHold"
    /\ Len(mode_trace) >= 3
    /\ SubSeq(mode_trace, 1, 3) = <<"PreStartup", "Startup", "PreMain">>

\* the fade-in PreMain pushes, at any age
MainFadeIns ==
    {[FadeTransitionEffect("In", FADE_IN_MS, MainEffect) EXCEPT !.age = a] :
        a \in 0..FADE_IN_MS}

\* C10, the states: main waits for an event in Startup only after it found
\* the button held and the charger unplugged, with PreStartup and Startup
\* the modes so far; after that boot the modes are PreStartup, Startup,
\* PreMain, Main with power On, and in Main the stack holds only the
\* fade-in wrapping the main visual or only the main visual
C10Modes ==
    /\ main_pc = "startup_recv" =>
          /\ initial_hold
          /\ SubSeq(mode_trace, 1, 2) = <<"PreStartup", "Startup">>
          /\ effect_stack = <<>>
    /\ BootedByHold =>
          /\ Len(mode_trace) = 3 =>
                mode = "PreMain" /\ power = "On" /\ effect_stack = <<>>
          /\ Len(mode_trace) >= 4 => mode_trace[4] = "Main"
          /\ Len(mode_trace) = 4 =>
                /\ mode = "Main"
                /\ power = "On"
                /\ \/ effect_stack = <<MainEffect>>
                   \/ Len(effect_stack) = 1 /\ effect_stack[1] \in MainFadeIns

\* C10, the steps: Startup receiving ButtonHold first goes to PreMain with
\* power On; the renderer's update turns the fade-in into the main visual
\* exactly when FADE_IN_MS have passed since the push, and the main visual
\* then stays
C10Step ==
    /\ (main_pc = "startup_recv" /\ first_event = "none"
          /\ first_event' = "ButtonHold") =>
          /\ mode_trace' = <<"PreStartup", "Startup", "PreMain">>
          /\ power' = "On"
    /\ (BootedByHold /\ Len(mode_trace) = 4 /\ rn_pc = "frame"
          /\ rn_pc' = "apply") =>
          effect_stack' =
             IF effect_stack # <<MainEffect>>
                /\ effect_stack[1].age < FADE_IN_MS
             THEN effect_stack ELSE <<MainEffect>>
    /\ (BootedByHold /\ Len(mode_trace') = 4
          /\ effect_stack = <<MainEffect>>) => effect_stack' = <<MainEffect>>

\* C10: boot with the button held and the charger unplugged, ButtonHold
\* received first: the modes are exactly PreStartup, Startup, PreMain, Main
\* and power becomes On; the stack holds one fade-in wrapping the main
\* visual, and the first renderer update at or after 1000 ms since the push
\* puts the main visual in its place
C10BootToMain == []C10Modes /\ [][C10Step]_vars

\* that boot has reached Main and the fade-in has given way to the main
\* visual
C10Witness ==
    /\ BootedByHold
    /\ mode_trace = <<"PreStartup", "Startup", "PreMain", "Main">>
    /\ power = "On"
    /\ effect_stack = <<MainEffect>>

\* mode_trace holds every mode set so far
TraceExact == Len(mode_trace) < MaxTrace

\* the charger was plugged in in Main and nothing has changed the mode
\* since, beyond PreCharging going on to Charging
PluggedInMain ==
    /\ TraceExact
    /\ mode \in {"PreCharging", "Charging"}
    /\ \E k \in DOMAIN mode_trace :
          /\ mode_trace[k] = "Main"
          /\ k < Len(mode_trace)
          /\ mode_trace[k + 1] = "PreCharging"
          /\ \A j \in (k + 2)..Len(mode_trace) : mode_trace[j] = "Charging"

\* the fade-in PreCharging pushes, at any age, and what replaces it
ChargingTops ==
    {[FadeTransitionEffect("In", FADE_IN_MS, ChargingEffect) EXCEPT !.age = a] :
        a \in 0..FADE_IN_MS} \cup {ChargingEffect}

\* C11, the states: Charging entered from Main has the charging fade-in or
\* the charging visual on top and below it at most the one fade-out
C11Stack ==
    (PluggedInMain /\ mode = "Charging") =>
        /\ Len(effect_stack) \in {1, 2}
        /\ effect_stack[Len(effect_stack)] \in ChargingTops
        /\ Len(effect_stack) = 2 =>
              /\ effect_stack[1].kind = "Fade"
              /\ effect_stack[1].dir = "Out"
              /\ effect_stack[1].duration = FADE_OUT_MS
              /\ effect_stack[1].wrapped.kind = "Vec"

\* C11, the steps: Main leaves for PreCharging only on ChargerPluggedIn and
\* with the whole previous stack as the bundle of one new 1500 ms
\* fade-out, the only element; a renderer update 1500 ms or more after that
\* leaves only the charging fade-in or visual, and so it stays
C11Step ==
    /\ (mode = "Main" /\ mode' = "PreCharging") =>
          /\ received' = "ChargerPluggedIn"
          /\ effect_stack' =
                <<FadeTransitionEffect("Out", FADE_OUT_MS,
                                       VecEffect(effect_stack))>>
    /\ (mode = "Main" /\ main_pc = "loop" /\ MainReceives
          /\ Head(events) = "ChargerPluggedIn") =>
          \/ mode' = "PreCharging"
          \/ StackLocked /\ main_pc' = "stack_wait" /\ mode' = "Main"
                /\ effect_stack' = effect_stack
    /\ (PluggedInMain /\ mode = "Charging" /\ rn_pc = "frame"
          /\ rn_pc' = "apply" /\ Len(effect_stack) = 2
          /\ effect_stack[1].age >= FADE_OUT_MS) =>
          /\ Len(effect_stack') = 1
          /\ effect_stack'[1] \in ChargingTops
    /\ (PluggedInMain /\ PluggedInMain' /\ mode = "Charging"
          /\ Len(effect_stack) = 1) => Len(effect_stack') = 1

\* C11: in Main, ChargerPluggedIn makes the whole previous stack the bundle
\* of one new 1500 ms fade-out, then the only stack element, and the mode
\* PreCharging; after a renderer update at least 1500 ms later the stack
\* holds only the charging fade-in or the charging visual
C11PlugInMain == []C11Stack /\ [][C11Step]_vars

\* Charging was entered from Main and the fade-out is gone: the charging
\* visual alone is on the stack
C11Witness ==
    /\ PluggedInMain
    /\ mode = "Charging"
    /\ effect_stack = <<ChargingEffect>>

(* ------------------------- Mode::Startup alone -------------------------- *)

\* the events of enum Event
Events ==
    {"ButtonPress", "ButtonRelease", "ButtonHold", "ChargerPluggedIn",
     "ChargerUnplugged"}

\* the queues main is started on when one arm of its loop is exercised:
\* up to two events of any kind
ArmQueues == UNION {[1..n -> Events] : n \in 0..2}

\* main at the top of its loop in mode m, the monitors waiting in their
\* selects, with any charger state, hold flag, power state and short queue
ArmInit(m) ==
    /\ button_pin = "High"
    /\ charger_pin = "Low"
    /\ button_edges = 0
    /\ charger_edges = 0
    /\ mode = m
    /\ button_state = NotHeld
    /\ charger_state \in {"Unplugged", "PluggedIn"}
    /\ events \in ArmQueues
    /\ exit = "None"
    /\ power \in {"Off", "On"}
    /\ effect_stack = <<>>
    /\ bi_pc = "select"
    /\ bi_button_state = NotHeld
    /\ bi_last_event = BUTTON_DEBOUNCE_TIME
    /\ ci_pc = "select"
    /\ ci_charger_state = charger_state
    /\ ci_last_event = CHARGER_DEBOUNCE_TIME
    /\ main_pc = "loop"
    /\ initial_hold \in BOOLEAN
    /\ timer = 0
    /\ rn_pc = "frame"
    /\ running = "main"
    /\ g_since = BUTTON_DEBOUNCE_TIME
    /\ g_acc = FALSE
    /\ g_short = FALSE
    /\ hold_count = 0
    /\ debounced = "no"
    /\ discarded = FALSE
    /\ received = "none"
    /\ first_event = "none"
    /\ mode_trace = <<m>>
    /\ HarnessIdle

InitStartup == ArmInit("Startup")

NextStartup == MainStartup \/ MainStartupEvent

SpecStartup == InitStartup /\ [][NextStartup]_vars

\* the step of C12: what Startup does before it receives, and what it does
\* with the event it receives
C12Step ==
    /\ (mode = "Startup" /\ main_pc = "loop"
          /\ (mode' # mode \/ main_pc' # main_pc)) =>
          /\ events' = events
          /\ power' = power
          /\ IF charger_state = "PluggedIn" THEN mode' = "PreCharging"
             ELSE IF ~initial_hold THEN mode' = "Shutdown"
             ELSE mode' = "Startup" /\ main_pc' = "startup_recv"
    /\ (main_pc = "startup_recv" /\ MainReceives) =>
          CASE Head(events) = "ButtonHold" ->
                  power' = "On" /\ mode' = "PreMain"
            [] Head(events) \in {"ButtonPress", "ButtonRelease"} ->
                  mode' = "Shutdown" /\ power' = power
            [] Head(events) = "ChargerPluggedIn" ->
                  mode' = "PreCharging" /\ power' = power
            [] OTHER -> mode' = "Startup" /\ power' = power
    /\ mode = "Startup" => mode' \in {"Startup", "PreCharging", "Shutdown",
                                      "PreMain"}

\* C12: after Startup, charger plugged in gives PreCharging whatever the
\* hold flag and without consuming an event; else a false hold flag gives
\* Shutdown without consuming an event; else the next event decides:
\* ButtonHold power On and PreMain, ButtonPress/ButtonRelease Shutdown,
\* ChargerPluggedIn PreCharging, any other event stays in Startup with
\* power unchanged
C12StartupDecision == [][C12Step]_vars

\* Startup received an event it ignores and is still Startup, and one of
\* the queues tried had the charger plugged in with the hold flag set
C12Witness ==
    /\ mode = "Startup"
    /\ received = "ChargerUnplugged"
    /\ initial_hold
    /\ charger_state = "Unplugged"

(* --------------------------- Mode::Charging ----------------------------- *)

\* the modes entered so far are those of a boot that went to charging and
\* stayed there
OnlyCharged ==
    /\ TraceExact
    /\ \A k \in DOMAIN mode_trace :
          mode_trace[k] \in {"PreStartup", "Startup", "PreCharging", "Charging"}

\* main, in Charging, takes the event at the front of the queue
ChargingReceives == mode = "Charging" /\ main_pc = "loop" /\ MainReceives

\* the step of C13
C13Step ==
    (ChargingReceives /\ Head(events) = "ButtonHold") =>
        /\ power = "On" => power' = "Off"
        /\ power = "Off" => power' = "On"
        /\ mode' = "Charging"
        /\ main_pc' = "loop"
        /\ effect_stack' = effect_stack

\* PowerState has two values, so that two flips give the first one back
C13Power == power \in {"Off", "On"}

\* C13: in Charging a ButtonHold flips the power state, leaves the mode
\* Charging and the effect stack as it was; a second ButtonHold flips the
\* power state back to what it was before the first
C13HoldToggles == []C13Power /\ [][C13Step]_vars

\* two ButtonHolds were received in Charging: power, Off at boot, was set
\* On by the first and is Off again after the second
C13Witness ==
    /\ OnlyCharged
    /\ mode = "Charging"
    /\ received = "ButtonHold"
    /\ power = "Off"
    /\ hold_count = 2
    /\ events = <<>>

\* the step of C14: the ChargerUnplugged arm of Charging, which, with power
\* On, waits for the stack's guard when the renderer holds it
C14Step ==
    /\ (ChargingReceives /\ Head(events) = "ChargerUnplugged"
          /\ power = "On") =>
          /\ power' = power
          /\ IF StackLocked
             THEN /\ main_pc' = "stack_wait"
                  /\ mode' = "Charging"
                  /\ effect_stack' = effect_stack
             ELSE /\ mode' = "PreMain"
                  /\ effect_stack' =
                        <<FadeTransitionEffect("Out", FADE_OUT_MS,
                                               VecEffect(effect_stack))>>
    /\ (mode = "Charging" /\ main_pc = "stack_wait"
          /\ main_pc' # main_pc) =>
          /\ power = "On"
          /\ power' = power
          /\ mode' = "PreMain"
          /\ effect_stack' =
                <<FadeTransitionEffect("Out", FADE_OUT_MS,
                                       VecEffect(effect_stack))>>
    /\ (ChargingReceives /\ Head(events) = "ChargerUnplugged"
          /\ power = "Off") =>
          /\ power' = power
          /\ mode' = "Shutdown"
          /\ effect_stack' = effect_stack
    /\ (mode = "Charging" /\ mode' # mode) =>
          /\ received' = "ChargerUnplugged"
          /\ mode' = (IF power = "On" THEN "PreMain" ELSE "Shutdown")

\* C14: in Charging, on ChargerUnplugged with power On the stack becomes
\* exactly one 1500 ms fade-out wrapping the previous stack in its order
\* and the mode PreMain; with power Off the mode becomes Shutdown and the
\* step leaves the stack alone; power is unchanged in both cases
C14Unplugged == [][C14Step]_vars

\* the charger was unplugged in Charging with power On: the mode is PreMain
\* and the stack is the one fade-out around the charging visual
C14Witness ==
    /\ mode = "PreMain"
    /\ received = "ChargerUnplugged"
    /\ power = "On"
    /\ Len(effect_stack) = 1
    /\ effect_stack[1].kind = "Fade"
    /\ effect_stack[1].dir = "Out"
    /\ effect_stack[1].duration = FADE_OUT_MS
    /\ effect_stack[1].wrapped.kind = "Vec"
    /\ Len(effect_stack[1].wrapped.items) = 1

(* ----------------------------- Mode::Main ------------------------------- *)

\* main, in Main, takes the event at the front of the queue
InMainReceives == mode = "Main" /\ main_pc = "loop" /\ MainReceives

\* Main is only entered with power On
C15Power == mode = "Main" => power = "On"

\* the step of C15
C15Step ==
    /\ (InMainReceives /\ Head(events) \in {"ButtonPress", "ButtonRelease"}) =>
          /\ initial_hold' = FALSE
          /\ mode' = "Main"
          /\ main_pc' = "loop"
          /\ power' = power
          /\ effect_stack' = effect_stack
    /\ (InMainReceives /\ Head(events) = "ButtonHold" /\ initial_hold) =>
          /\ mode' = "Pairing"
          /\ power' = "On"
          /\ initial_hold' = initial_hold
    /\ (InMainReceives /\ Head(events) = "ButtonHold" /\ ~initial_hold) =>
          /\ power' = "Off"
          /\ mode' = "Shutdown"

\* C15: in Main, ButtonPress and ButtonRelease only clear the initial-hold
\* flag; ButtonHold with the flag set gives Pairing with power still On;
\* ButtonHold with the flag cleared sets power Off and gives Shutdown
C15MainButtons == []C15Power /\ [][C15Step]_vars

\* after the hold that booted the device was released, the button was
\* pressed again and held: Main received ButtonHold with the flag cleared
C15Witness ==
    /\ mode = "Shutdown"
    /\ TraceExact
    /\ Len(mode_trace) > 1
    /\ mode_trace[Len(mode_trace) - 1] = "Main"
    /\ received = "ButtonHold"
    /\ ~initial_hold
    /\ power = "Off"

(* --------------------- Vec<Box<dyn Effect>>::update --------------------- *)

\* what update on the member at position i of the sequence before the call
\* gives
MemberOutcome(i) == UpdateEffect(u_in[i])

\* the sequence update must leave: the members that did not return Remove,
\* in their order, each as its own update left it or as the effect its
\* Replace carried
ExpectedUpdated ==
    LET res == [i \in DOMAIN u_in |-> MemberOutcome(i)]
        kept == SelectSeq(res, LAMBDA r : r.ev # "Remove")
    IN  [k \in DOMAIN kept |->
            IF kept[k].ev = "Replace" THEN kept[k].new ELSE kept[k].self]

\* update has returned
UpdateDone == u_ev # "NotRun"

\* C16, until the first member is removed: the members visited so far have
\* been updated once and stand, or their replacements stand, at their
\* positions; the others have not been touched
C16Loop ==
    Len(uv) = Len(u_in) =>
        \A i \in DOMAIN u_in :
            IF i <= u_next
            THEN /\ u_calls[i] = 1
                 /\ MemberOutcome(i).ev = "Replace" => uv[i] = MemberOutcome(i).new
                 /\ MemberOutcome(i).ev # "Replace" => uv[i] = MemberOutcome(i).self
            ELSE u_calls[i] = 0 /\ uv[i] = u_in[i]

\* C16, once update has returned
C16Done ==
    UpdateDone =>
        /\ \A i \in DOMAIN u_in : u_calls[i] = 1
        /\ uv = ExpectedUpdated
        /\ uv = VecUpdate(u_in)
        /\ u_ev = "None"

\* C16: update on a sequence calls update once on every member, also on
\* those a higher Opaque member culls from apply, puts the effect of each
\* Replace at the position of the member that returned it, removes exactly
\* the members that returned Remove keeping the order of the others, and
\* never returns a lifecycle event itself
C16VecUpdate == C16Loop /\ C16Done /\ u_ev \in {"NotRun", "None"}

\* update has returned on a sequence whose top member is Opaque and culls a
\* member that returned Replace and two that returned Remove
C16Witness ==
    /\ UpdateDone
    /\ Len(u_in) = MaxLen
    /\ DisplayMode(u_in[MaxLen]) = "Opaque"
    /\ \E i, j, k \in 1..(MaxLen - 1) :
          /\ i < j /\ j < k
          /\ MemberOutcome(i).ev = "Remove"
          /\ MemberOutcome(j).ev = "Replace"
          /\ MemberOutcome(k).ev = "Remove"
    /\ Len(uv) = 2

(* -------------------- FadeTransitionEffect::update ---------------------- *)

\* the step is a call of update on the fade: its result differs from the
\* last one, or it is the first call since time passed
FadeUpdated == fx_ev' # fx_ev \/ (~fx_fresh /\ fx_fresh')

\* the fade wraps an effect whose own update, made first, returns Remove
InnerRemoves == fx.wrapped # NoEffect /\ UpdateEffect(fx.wrapped).ev = "Remove"

\* the fade wraps an effect and still wraps one after that effect's update
InnerStays == fx.wrapped # NoEffect /\ ~InnerRemoves

\* the step of C17
C17Step ==
    /\ (FadeUpdated /\ InnerStays /\ fx.age >= fx.duration) =>
          /\ fx.dir = "In" =>
                /\ fx_ev' = "Replace"
                /\ fx_new' # NoEffect
                /\ fx_new' = Rewrapped(UpdateEffect(fx.wrapped))
          /\ fx.dir = "Out" => fx_ev' = "Remove"
    /\ (FadeUpdated /\ fx.age < fx.duration) =>
          /\ fx_ev' # "Replace"
          /\ fx_ev' = "Remove" => InnerRemoves
          /\ fx'.age = fx.age

\* C17: the first update at or after the duration of a fade that still
\* wraps an effect returns Replace with that effect for a fade-in and
\* Remove for a fade-out; before its duration the fade's own timer makes
\* update return neither
C17FadeCompletion == [][C17Step]_vars

\* a fade-in around a pulse has run its duration and handed the pulse over
C17Witness ==
    /\ fx.dir = "In"
    /\ fx.age >= fx.duration
    /\ fx_ev = "Replace"
    /\ fx_new = SinePulseEffect(MAIN_PERIOD_MS, RgbEffect("A"))
    /\ fx.wrapped = NoEffect

\* the step of C18: an update before the deadline during which the inner
\* effect returns Remove leaves the fade in place without an inner effect
C18Step ==
    (FadeUpdated /\ InnerRemoves /\ fx.age < fx.duration) =>
        /\ fx'.wrapped = NoEffect
        /\ fx_ev' = "None"
        /\ fx'.age = fx.age

\* C18 as stated: when the inner effect of a fade returns Remove before the
\* fade's deadline, the fade drops the inner effect but does not return
\* Remove itself; it stays and keeps fading until its own duration
C18Original == [][C18Step]_vars

(* ----------------------------- write_pulses ---------------------------- *)

\* bit j (0 the least significant) of the 8-bit value v
BitOf(v, j) == (v \div (2 ^ j)) % 2

\* the symbol that stands for a bit
SymbolOf(bit) == IF bit = 1 THEN ONE ELSE ZERO

\* the 24 slots of pixel i (from 1) hold g, r, b, each from bit 7 down to 0
PixelEncoded(i) ==
    \A k \in 0..7 :
        /\ pb[(i - 1) * 24 + 1 + k] = SymbolOf(BitOf(rb[i].g, 7 - k))
        /\ pb[(i - 1) * 24 + 9 + k] = SymbolOf(BitOf(rb[i].r, 7 - k))
        /\ pb[(i - 1) * 24 + 17 + k] = SymbolOf(BitOf(rb[i].b, 7 - k))

\* write_pulses has returned: the frame is ready for transmit
FrameWritten == p_next = LED_COUNT

\* C19: the 24 pulse slots of every pixel written hold the bits of its
\* quantized g, then r, then b, each most significant bit first, a set bit
\* as ONE and a clear bit as ZERO; the pulse buffer has LED_COUNT * 24 + 1
\* entries and its last entry is the zero terminator, after every frame too
C19PulseLayout ==
    /\ Len(pb) = LED_COUNT * 24 + 1
    /\ pb[Len(pb)] = 0
    /\ \A i \in 1..LED_COUNT : i <= p_next => PixelEncoded(i)

\* a frame of a mixed colour alternating with its inverse has been written:
\* the slots of the first and of the last pixel, and the terminator
C19Witness ==
    /\ FrameWritten
    /\ rb[1] = [r |-> 128, g |-> 1, b |-> 165]
    /\ rb[LED_COUNT] = [r |-> 127, g |-> 254, b |-> 90]
    /\ SubSeq(pb, 1, 24) =
          <<ZERO, ZERO, ZERO, ZERO, ZERO, ZERO, ZERO, ONE,
            ONE, ZERO, ZERO, ZERO, ZERO, ZERO, ZERO, ZERO,
            ONE, ZERO, ONE, ZERO, ZERO, ONE, ZERO, ONE>>
    /\ SubSeq(pb, LED_COUNT * 24 - 23, LED_COUNT * 24) =
          <<ONE, ONE, ONE, ONE, ONE, ONE, ONE, ZERO,
            ZERO, ONE, ONE, ONE, ONE, ONE, ONE, ONE,
            ZERO, ONE, ZERO, ONE, ONE, ZERO, ONE, ZERO>>
    /\ pb[LED_COUNT * 24 + 1] = 0

(* ------------------------------- transmit ------------------------------- *)

\* the error flag has been raised during this call of transmit
ErrorRaised == Transmitting /\ tx_err

\* transmit has returned a transmission error
ReturnedError == tx_pc = "done" /\ tx_result = "TransmissionError"

\* C20, the states: a test that finds the flag raised ends transmit with a
\* transmission error, Ok is never returned with the flag raised, and at
\* most one refill, the one whose wait for the threshold was under way or
\* about to begin when the flag was raised, is made with the flag raised
C20State ==
    /\ tx_checked => ReturnedError
    /\ (tx_pc = "done" /\ tx_err) => tx_result = "TransmissionError"
    /\ tx_late <= 1

\* C20, the steps: no refill follows a test that found the flag raised, and
\* every test made with the flag raised finds it
C20Step ==
    /\ tx_index' > tx_index => ~tx_checked /\ ~tx_checked'
    /\ (tx_pc \in {"check", "last"} /\ tx_pc' # tx_pc /\ tx_err) =>
          ReturnedError'

MainMutates ==
    /\ effect_stack' # effect_stack
    /\ mode' # mode \/ main_pc' # main_pc

\* the stack after a drain-and-replace of the stack s
Replaced(s) ==
    { <<FadeTransitionEffect("Out", d, VecEffect(s))>> :
        d \in {FADE_OUT_MS, SHUTDOWN_FADE_MS} }

\* the stack after a fade-in was pushed on the stack s
Pushed(s) ==
    { Append(s, FadeTransitionEffect("In", FADE_IN_MS, e)) :
        e \in {ChargingEffect, MainEffect} }

RECURSIVE Timeless(_)
\* the effect e with the time its fades have run left out
Timeless(e) ==
    CASE e.kind = "Fade" ->
            [e EXCEPT !.age = 0, !.wrapped = Timeless(e.wrapped)]
      [] e.kind = "SinePulse" -> [e EXCEPT !.wrapped = Timeless(e.wrapped)]
      [] e.kind = "Vec" ->
            [e EXCEPT !.items = [i \in DOMAIN e.items |-> Timeless(e.items[i])]]
      [] OTHER -> e

\* the stack holds the same effects as before, however long they have run
SameEffects ==
    Timeless(VecEffect(effect_stack')) = Timeless(VecEffect(effect_stack))

\* the step of C21: between the renderer's update and the end of its apply
\* nothing changes the stack; what the controller leaves behind in one step
\* is the old stack with a fade-in pushed, or the fade-out that wraps all of
\* it, never the drained stack
C21Step ==
    /\ rn_pc = "apply" => SameEffects
    /\ MainMutates =>
          /\ rn_pc = "frame"
          /\ rn_pc' = "frame"
          /\ effect_stack' # <<>>
          /\ effect_stack' \in Replaced(effect_stack) \cup Pushed(effect_stack)
    /\ (effect_stack # <<>> /\ effect_stack' = <<>>) =>
          /\ rn_pc = "frame"
          /\ effect_stack' = VecUpdate(effect_stack)
          /\ UNCHANGED <<mode, main_pc>>

\* C21: every drain-and-replace of the stack by the controller is one step
\* for the renderer, which never updates or applies a stack that is drained
\* and does not hold the fade-out yet, and the controller never changes the
\* stack between the renderer's update and the end of its apply of the frame
C21StackAtomic == [][C21Step]_vars

\* the controller is suspended on the guard of the stack it is about to
\* drain while the renderer applies the frame it has updated
C21Witness ==
    /\ main_pc = "stack_wait"
    /\ rn_pc = "apply"
    /\ effect_stack # <<>>

(* ------------------------- discarded transitions ------------------------ *)

\* button_input discards the level change its select has just resolved to
ButtonDiscards == bi_pc = "select" /\ bi_pc' = "spin"

\* charger_input discards the level change its select has just resolved to
ChargerDiscards == ci_pc = "select" /\ ci_pc' = "spin"

\* the step of C22 as stated
C22Step ==
    /\ ButtonDiscards =>
          /\ bi_button_state'.held # bi_button_state.held
          /\ button_state' = button_state
          /\ events' = events
    /\ ChargerDiscards =>
          /\ ci_charger_state' # ci_charger_state
          /\ charger_state' = charger_state
          /\ events' = events

\* C22 as stated: a monitor that discards a transition inside its debounce
\* window still flips its local state, so that it next waits for the
\* opposite level, while the shared state stays as it was and no event is
\* published
C22Original == [][C22Step]_vars

(* ---------------------------- Mode::Shutdown ---------------------------- *)

\* main enters the Shutdown arm: it has the guard of the stack
ShutdownEntered == mode = "Shutdown" /\ main_pc = "loop" /\ main_pc' # "loop"

\* main broadcasts exit
ExitSignalled == main_pc = "fade_wait" /\ main_pc' = "grace"

\* the fade-out Shutdown pushed is the whole stack and has run its 500 ms
ShutdownFadeOver ==
    /\ Len(effect_stack) = 1
    /\ effect_stack[1].kind = "Fade"
    /\ effect_stack[1].dir = "Out"
    /\ effect_stack[1].duration = SHUTDOWN_FADE_MS
    /\ effect_stack[1].age >= SHUTDOWN_FADE_MS

\* the step of C23
C23Step ==
    /\ (ShutdownEntered /\ effect_stack # <<>>) =>
          /\ effect_stack' =
                <<FadeTransitionEffect("Out", SHUTDOWN_FADE_MS,
                                       VecEffect(effect_stack))>>
          /\ timer' = SHUTDOWN_FADE_MS
    /\ (ShutdownEntered /\ effect_stack = <<>>) =>
          /\ effect_stack' = <<>>
          /\ timer' = 0
          /\ ~button_state.held => main_pc' = "fade_wait"
    /\ (mode = "Shutdown" /\ main_pc # "loop" /\ effect_stack = <<>>) =>
          effect_stack' = <<>>
    /\ ExitSignalled =>
          /\ exit' = "Signaled"
          /\ effect_stack = <<>> \/ ShutdownFadeOver
    /\ (exit = "None" /\ exit' # "None") => ExitSignalled

\* while Shutdown has not broadcast exit, an empty stack means that no
\* timed wait is left, and a fade-out still on the stack shows the time
\* that has passed of the 500 ms
C23State ==
    (mode = "Shutdown" /\ main_pc \in {"button_wait", "debounce", "fade_wait"}) =>
        /\ effect_stack = <<>> => timer = 0
        /\ effect_stack # <<>> =>
              /\ Len(effect_stack) = 1
              /\ effect_stack[1].duration = SHUTDOWN_FADE_MS
              /\ effect_stack[1].age + timer = SHUTDOWN_FADE_MS

\* C23: in Shutdown a stack that is not empty at entry is replaced by
\* exactly one 500 ms fade-out wrapping it, and exit is not broadcast
\* earlier than 500 ms after that push; an empty stack stays empty and, the
\* button not being held, exit is broadcast without a timed wait
C23Shutdown == []C23State /\ [][C23Step]_vars

\* exit has just been broadcast, the fade-out pushed at entry has run its
\* 500 ms and is still on the stack
C23Witness ==
    /\ mode = "Shutdown"
    /\ main_pc = "grace"
    /\ timer = GRACE_MS
    /\ ShutdownFadeOver
    /\ effect_stack[1].wrapped.kind = "Vec"
    /\ effect_stack[1].wrapped.items # <<>>

\* send_raw has loaded the first chunk
Loads == tx_pc = "start" /\ tx_pc' = "check"

\* the loop has refilled one half of the RMT memory
Refills == tx_pc = "wait" /\ tx_pc' = "check"

\* what the writes of transmit leave behind: the elements before
\* tx_written are written, which are those before index; short data is
\* never refilled
C24State ==
    /\ tx_pc \notin {"none", "start"} =>
          /\ tx_written = Min({tx_index, tx_len})
          /\ tx_from + tx_n = tx_written
    /\ tx_len <= RMT_CHANNEL_RAM_SIZE => tx_pc # "wait" /\ tx_from = 0
    /\ tx_ram \in {0, RMT_CHANNEL_RAM_SIZE \div 2}
    /\ tx_ram + (IF tx_from = 0 THEN 0 ELSE tx_n) <= RMT_CHANNEL_RAM_SIZE

\* each write takes the elements that follow those already written; the
\* refills go to the lower half first and then to the half the refill
\* before did not write, each after the threshold flag was seen and reset;
\* the loop is left when index has reached the length of data, not before
C24Step ==
    /\ Loads =>
          /\ tx_written = 0
          /\ tx_from' = 0
          /\ tx_n' = Min({RMT_CHANNEL_RAM_SIZE, tx_len})
    /\ Refills =>
          /\ tx_len > RMT_CHANNEL_RAM_SIZE
          /\ tx_thr /\ ~tx_thr'
          /\ tx_from' = tx_written
          /\ tx_n' = Min({RMT_CHANNEL_RAM_SIZE \div 2, tx_len - tx_written})
          /\ tx_n' > 0
          /\ tx_ram' = IF tx_from = 0
                       THEN 0
                       ELSE RMT_CHANNEL_RAM_SIZE \div 2 - tx_ram
    /\ tx_written' # tx_written =>
          /\ Loads \/ Refills
          /\ tx_written' = tx_written + tx_n'
    /\ <<tx_from, tx_n, tx_ram>>' # <<tx_from, tx_n, tx_ram>> =>
          Loads \/ Refills
    /\ (tx_pc = "check" /\ tx_pc' = "final") =>
          tx_index >= tx_len /\ tx_written = tx_len
    /\ (tx_pc = "check" /\ tx_pc' # "check" /\ tx_index >= tx_len /\ ~tx_err)
          => tx_pc' = "final"

\* C24: transmit writes every element of data once and in the order of the
\* indices, the first RMT_CHANNEL_RAM_SIZE by the load and then halves to
\* the lower and the upper half of the RMT memory in turn, each after a
\* threshold flag seen and reset; the loop ends when index reaches the
\* length of data, and data that fits the RMT memory is never refilled
C24RefillOrder == []C24State /\ [][C24Step]_vars

\* a transmission of two halves and five elements more has returned Ok:
\* the third refill wrote the five into the lower half
C24Witness ==
    /\ tx_pc = "done"
    /\ tx_result = "Ok"
    /\ tx_len = RMT_CHANNEL_RAM_SIZE * 2 + 5
    /\ tx_written = tx_len
    /\ tx_from = RMT_CHANNEL_RAM_SIZE * 2
    /\ tx_n = 5
    /\ tx_ram = 0

(* --------------------------- the stack's length ------------------------ *)

\* the step is the renderer's update changing the stack
RendererMutates ==
    /\ effect_stack' # effect_stack
    /\ mode' = mode /\ main_pc' = main_pc
    /\ rn_pc' # rn_pc

\* the controller's pushes: a fade-in on a stack of at most one effect, in
\* PreCharging or PreMain, or the fade-out that takes the place of all that
\* was on the stack; the renderer's update never makes the stack longer
C25Step ==
    /\ MainMutates =>
          \/ effect_stack' \in Replaced(effect_stack)
          \/ /\ effect_stack' \in Pushed(effect_stack)
             /\ mode \in {"PreCharging", "PreMain"}
             /\ Len(effect_stack) <= 1
    /\ RendererMutates => Len(effect_stack') <= Len(effect_stack)
    /\ Len(effect_stack') > Len(effect_stack) =>
          /\ MainMutates
          /\ Len(effect_stack') = Len(effect_stack) + 1

\* C25: the effect stack never holds more than 2 effects: what is pushed is
\* a fade-out after a full drain or one fade-in in PreCharging or PreMain,
\* and the renderer's updates never lengthen the stack
C25StackLength == [](Len(effect_stack) <= 2) /\ [][C25Step]_vars

\* in Main after a stay in Charging: the fade-out of the charging effects
\* and the fade-in of the main effects are both on the stack
C25Witness ==
    /\ mode = "Main"
    /\ Len(effect_stack) = 2
    /\ effect_stack[1].kind = "Fade" /\ effect_stack[1].dir = "Out"
    /\ effect_stack[2].kind = "Fade" /\ effect_stack[2].dir = "In"

(* ----------------------------- power by mode --------------------------- *)

\* the modes entered with the power state On and left before it changes
PoweredModes == {"PreMain", "Main", "Pairing"}

\* the modes in which the power state is Off
UnpoweredModes == {"PreStartup", "Startup", "Shutdown"}

\* C26: the power state is On whenever the mode is PreMain, Main or
\* Pairing, and Off whenever the mode is PreStartup, Startup or Shutdown
C26PowerByMode ==
    /\ mode \in PoweredModes => power = "On"
    /\ mode \in UnpoweredModes => power = "Off"

\* Shutdown after Main: the power state was On and is Off again
C26Witness ==
    /\ mode = "Shutdown"
    /\ power = "Off"
    /\ \E i \in DOMAIN mode_trace : mode_trace[i] = "Main"

(* ------------------------------ mode edges ----------------------------- *)

\* the changes of the mode the arms of main make
ModeEdges ==
    { <<"PreStartup", "Startup">>,
      <<"Startup", "PreCharging">>, <<"Startup", "PreMain">>,
      <<"Startup", "Shutdown">>,
      <<"PreCharging", "Charging">>,
      <<"Charging", "PreMain">>, <<"Charging", "Shutdown">>,
      <<"PreMain", "Main">>,
      <<"Main", "PreCharging">>, <<"Main", "Pairing">>,
      <<"Main", "Shutdown">> }

\* the step of C27
C27Step ==
    /\ mode' # mode => <<mode, mode'>> \in ModeEdges
    /\ mode \in {"Pairing", "Shutdown"} => mode' = mode
    /\ mode = "Pairing" => ~MainReceives /\ received' = received

\* C27: the mode changes along the edges of ModeEdges only; PrePairing is
\* never the mode; Pairing and Shutdown are never left; in Pairing main
\* receives no event
C27ModeEdges == [](mode # "PrePairing") /\ [][C27Step]_vars

\* in Pairing, part of the pairing timer has run and an event lies in the
\* queue, not taken
C27Witness ==
    /\ mode = "Pairing"
    /\ main_pc = "pairing"
    /\ timer < PAIRING_MS
    /\ events # <<>>

(* ----------------------------- circular wait --------------------------- *)

\* main is suspended in get_button_state or get_charger_state
ButtonCallPending ==
    main_pc = "button_wait" \/ (main_pc = "settle" /\ timer = 0)

ChargerCallPending == main_pc = "loop" /\ mode = "Startup"

\* main waits for a guard whose holder waits for room in the queue, which
\* only main could make
CircularWait ==
    /\ ChannelFull(events)
    /\ \/ ButtonCallPending /\ ButtonGuardHeld
       \/ ChargerCallPending /\ ChargerGuardHeld

\* C28 as stated: no circular wait arises between main and a monitor, also
\* when the monitor is suspended in its send with the guard locked and the
\* queue full
C28Original == ~CircularWait

(* --------------------------- Shutdown debounce ------------------------- *)

\* main leaves the debounce loop of Shutdown
DebounceLeft == main_pc = "debounce" /\ main_pc' = "fade_wait"

\* C29 as stated: when main leaves the debounce loop of Shutdown, having
\* found the button held, the shared ButtonState is NotHeld: the
\* ButtonRelease it took is the release of the hold it saw, not an older one
\* queued ahead of a later ButtonPress
C29Original ==
    [][DebounceLeft => ~button_state'.held]_vars

(* ------------------------- the published sequence ---------------------- *)

\* the step appends the event e to the queue
Published(e) == events' = Append(events, e)

\* the step of C30. The shared ButtonState remembers the last of
\* ButtonPress and ButtonRelease published, or the level at boot: it changes
\* with each of them and with nothing else, so a ButtonPress is published
\* only after a ButtonRelease or a boot with the button up, a ButtonRelease
\* only after a ButtonPress or a held boot; a ButtonHold is published while
\* it is Held. The same for the charger's two events and ChargerState.
C30Step ==
    /\ Published("ButtonPress") =>
          ~button_state.held /\ button_state'.held
    /\ Published("ButtonRelease") =>
          button_state.held /\ ~button_state'.held
    /\ Published("ButtonHold") =>
          /\ button_state.held /\ button_state'.held
          /\ bi_button_state'.held
    /\ (bi_pc # "init" /\ button_state'.held # button_state.held) =>
          Published("ButtonPress") \/ Published("ButtonRelease")
    /\ Published("ChargerPluggedIn") =>
          charger_state = "Unplugged" /\ charger_state' = "PluggedIn"
    /\ Published("ChargerUnplugged") =>
          charger_state = "PluggedIn" /\ charger_state' = "Unplugged"
    /\ (ci_pc # "init" /\ charger_state' # charger_state) =>
          Published("ChargerPluggedIn") \/ Published("ChargerUnplugged")
    /\ bi_pc' = "init" => button_state' = NotHeld /\ events' = <<>>
    /\ (bi_pc = "init" /\ bi_pc' # "init") =>
          button_state'.held = (button_pin = "Low")

\* the monitors wait in their selects with the local state and the shared
\* one in agreement
C30State ==
    /\ bi_pc \in {"select", "spin"} =>
          bi_button_state.held = button_state.held
    /\ ci_pc \in {"select", "spin"} => ci_charger_state = charger_state

=============================================================================
